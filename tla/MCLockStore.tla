----------------------------- MODULE MCLockStore -----------------------------
(* LockStore for TLC. *)
EXTENDS LockStore

\* The default configuration writes the custom log format.  A follower with
\* the request format that lags behind is left out: see CommitsOwnLock in the
\* README.
MCSetups == {[custom |-> FALSE, lagging |-> FALSE],
             [custom |-> TRUE, lagging |-> FALSE],
             [custom |-> TRUE, lagging |-> TRUE]}
=============================================================================
