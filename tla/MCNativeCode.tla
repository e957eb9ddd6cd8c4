---------------------------- MODULE MCNativeCode -----------------------------
(***************************************************************************)
(* The native components below the plans, which share no state: a          *)
(* behaviour is one of the subject it starts with, the others stand still, *)
(* and the state space is the sum of theirs.                               *)
(***************************************************************************)
EXTENDS MCProviderLowering, TorchTraining, OpenCvPipeline, OnnxSessions, PetscSolve

VARIABLE subject

Weight == Tensor(<<2, 2>>, <<"w">>)
Bias == Tensor(<<2>>, <<"b">>)
MCAdditions ==
    {Op("affine", <<0>>, 1, <<Weight, Bias>>, 0), Op("rms_norm", <<1>>, 1, <<Bias>>, 0),
     Op("rms_norm", <<0>>, 1, <<Bias>>, 0), Op("mse", <<0, 1>>, 0, <<>>, 0), Op("relu", <<0>>, 1, <<>>, 0)}

\* Minima inside the box, on its boundary, and a problem that is not convex.
MCProblems ==
    <<[hessian |-> <<<<2, 1>>, <<1, 2>>>>, linear |-> <<-1, -6>>, lower |-> <<-1, -1>>, upper |-> <<1, 1>>],
      [hessian |-> <<<<1>>>>, linear |-> <<-2>>, lower |-> <<0>>, upper |-> <<3>>],
      [hessian |-> <<<<-2>>>>, linear |-> <<1>>, lower |-> <<-1>>, upper |-> <<1>>]>>

MCInit ==
    /\ subject \in {"training", "lowering", "filters", "sessions", "solves"}
    /\ TrainingInit /\ LoweringInit /\ CvInit /\ OnnxInit /\ PetscInit
    /\ subject # "lowering" => menu = (CHOOSE m \in Menus : TRUE) /\ tensorWidth = [id \in Results |-> Undeclared]
    /\ subject # "filters" => compiled /\ inputSize = <<1, 1>>

MCNext ==
    /\ UNCHANGED subject
    /\ \/ subject = "training" /\ TrainingNext
          /\ UNCHANGED <<jaxVars, loweringVars, cvVars, onnxVars, petscVars>>
       \/ subject = "lowering" /\ LoweringNext
          /\ UNCHANGED <<trainingVars, cvVars, onnxVars, petscVars>>
       \/ subject = "filters" /\ CvNext
          /\ UNCHANGED <<torchVars, jaxVars, loweringVars, onnxVars, petscVars>>
       \/ subject = "sessions" /\ OnnxNext
          /\ UNCHANGED <<torchVars, jaxVars, loweringVars, cvVars, petscVars>>
       \/ subject = "solves" /\ PetscNext
          /\ UNCHANGED <<torchVars, jaxVars, loweringVars, cvVars, onnxVars>>

MCSpec == MCInit /\ [][MCNext]_<<subject, torchVars, jaxVars, loweringVars, cvVars, onnxVars, petscVars>>
==============================================================================
