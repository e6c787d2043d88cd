---------------------------- MODULE MCCoroutine ----------------------------
(* Coroutine for TLC: three coroutines or calls and one descriptor.        *)
EXTENDS Coroutine
CONSTANT f1
MCDelays == {1}
MCFds == {f1}
=============================================================================
