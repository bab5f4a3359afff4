--------------------------- MODULE EvidenceService ---------------------------
(***************************************************************************)
(* What the Attester Daemon promises to a caller, whatever sockets,        *)
(* processes and restarts lie in between: a call is answered at most once, *)
(* the answer is about the caller, and it is never taken back.             *)
(***************************************************************************)
CONSTANTS
    Calls,      \* the calls that may be made
    Owner,      \* Owner[c]: the process that makes call c
    Silent,     \* calls that may return without an answer and without an error
    None        \* no answer

VARIABLES
    call,       \* call[c]: "idle", "asked", "answered", "empty" or "failed"
    answer      \* answer[c]: the reply of an answered call

\* tpmdaemon.h:3-8: the nonce is the caller's, app-hash measures the caller,
\* and the quote covers both.  The daemon may fail to measure, or to unseal, and
\* says nothing of it; a quote over some other nonce cannot mislead a caller
\* that checks.
Fits(c, r) ==
    /\ r.measured => r.pid = Owner[c]
    /\ r.unsealed => r.nonce \in {c, None}
    /\ \/ r.quote = None
       \/ r.quote.nonce # c
       \/ r.quote.pid = r.pid

Init ==
    /\ call = [c \in Calls |-> "idle"]
    /\ answer = [c \in Calls |-> None]

Ask(c) ==
    /\ call[c] = "idle"
    /\ call' = [call EXCEPT ![c] = "asked"]
    /\ UNCHANGED answer

Answer(c) ==
    /\ call[c] = "asked"
    /\ call' = [call EXCEPT ![c] = "answered"]
    /\ answer' = [answer EXCEPT ![c] = answer'[c]]
    /\ Fits(c, answer'[c])

Empty(c) ==
    /\ c \in Silent /\ call[c] = "asked"
    /\ call' = [call EXCEPT ![c] = "empty"]
    /\ UNCHANGED answer

Fail(c) ==
    /\ call[c] \in {"idle", "asked"}
    /\ call' = [call EXCEPT ![c] = "failed"]
    /\ UNCHANGED answer

Next == \E c \in Calls : Ask(c) \/ Answer(c) \/ Empty(c) \/ Fail(c)

Spec == Init /\ [][Next]_<<call, answer>>
=============================================================================
