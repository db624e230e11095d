---------------------------- MODULE MCThreadPool ----------------------------
(* Model checking the worker pool: four threads; loops that are empty, too    *)
(* short to share, shorter than, as long as, and no multiple of, the pool.    *)
EXTENDS ThreadPool

MCCounts == {0, 1, 2, 4, 5}

=============================================================================
