------------------------- MODULE MCProviderLowering --------------------------
EXTENDS ProviderLowering

\* All kinds in models of two transformations, some of them in models of three.
AllKinds == {"affine", "matrix_product", "relu", "softmax", "exp", "sum", "layer_norm", "rms_norm",
             "attention_mask", "attention", "add", "mse", "cross_entropy"}
SomeKinds == {"affine", "relu", "layer_norm", "add"}
MCMenus == {[kinds |-> AllKinds, length |-> 2], [kinds |-> SomeKinds, length |-> 3]}
MCWeightShapes == {<<2, 2>>, <<1, 2>>, <<2, 1>>}
MCMaskShapes == {<<1, 2>>, <<2, 2>>, <<2, 1>>}
\* The results differ in nothing but what the model declares of them.
MCSymmetry == Permutations(Results)
==============================================================================
