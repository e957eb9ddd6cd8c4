\* JAX alone.
CONSTANTS
    Threads = {t1, t2}
    Bridges = {jax}
    Serialised = {}
    None = None
SPECIFICATION FairSpec
PROPERTIES ExecutionsReturn
CHECK_DEADLOCK FALSE
