----------------------------- MODULE MCLogStore -----------------------------
(***************************************************************************)
(* LogStore with a few threads.                                            *)
(***************************************************************************)
EXTENDS LogStore

CONSTANTS server, reader, atexit

TwoLoggers == {server, reader}
OneCloser  == {atexit}   \* nothing else calls close()

=============================================================================
