---------------------------- MODULE RunningFlag -----------------------------
(***************************************************************************)
(* The flag that all threads of main.rs look at, and that Ctrl-C clears.   *)
(***************************************************************************)
VARIABLE running

Started == running = TRUE

\* The handler of Ctrl-C.
Interrupt == running /\ running' = FALSE
=============================================================================
