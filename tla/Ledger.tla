------------------------------- MODULE Ledger -------------------------------
(***************************************************************************)
(* What an append-only ledger with epochs promises its callers, with no    *)
(* word on counters, tables or locks:                                      *)
(*   - an epoch, once it names an entry, names that entry for ever;        *)
(*   - an append that starts after another one was acknowledged gets a     *)
(*     larger epoch;                                                       *)
(*   - only what is in the log is acknowledged;                            *)
(*   - an append may be abandoned at any moment (a failed write, a crash), *)
(*     before its entry is in the log or after.                            *)
(* Wal implements it; see the instance at the end of Wal.                  *)
(***************************************************************************)
EXTENDS Naturals

CONSTANTS Writers,   \* the callers
          Clicks,    \* what they append
          MaxEpoch,  \* the number of epochs of a bounded instance
          NoClick    \* marks an epoch that names no entry

VARIABLES log,      \* epoch -> entry, or NoClick
          pending,  \* caller -> the append it is running
          acked     \* the appends whose caller was told the epoch

ledgerVars == <<log, pending, acked>>

Epochs == 1..MaxEpoch

NoAppend == [stage |-> "none", epoch |-> 0, click |-> NoClick]

Init ==
  /\ log = [e \in Epochs |-> NoClick]
  /\ pending = [w \in Writers |-> NoAppend]
  /\ acked = {}

\* An append starts: it is promised an epoch that nobody else holds, that
\* names no entry, and that lies above everything acknowledged so far.
Reserve(w) ==
  \E e \in Epochs, c \in Clicks :
    /\ pending[w] = NoAppend
    /\ log[e] = NoClick
    /\ \A v \in Writers : pending[v].epoch # e
    /\ \A a \in acked : a.epoch < e
    /\ pending' = [pending EXCEPT
         ![w] = [stage |-> "reserved", epoch |-> e, click |-> c]]
    /\ UNCHANGED <<log, acked>>

\* The entry becomes part of the log.
Commit(w) ==
  /\ pending[w].stage = "reserved"
  /\ log' = [log EXCEPT ![pending[w].epoch] = pending[w].click]
  /\ pending' = [pending EXCEPT ![w].stage = "committed"]
  /\ UNCHANGED acked

\* The caller is told the epoch of its entry.
Acknowledge(w) ==
  /\ pending[w].stage = "committed"
  /\ acked' = acked \cup {[epoch |-> pending[w].epoch,
                           click |-> pending[w].click]}
  /\ pending' = [pending EXCEPT ![w] = NoAppend]
  /\ UNCHANGED log

\* Some appends end without an acknowledgement: one that fails, or all of
\* them at once when the process dies.
Abandon ==
  \E lost \in SUBSET Writers :
    /\ pending' = [w \in Writers |-> IF w \in lost THEN NoAppend
                                                   ELSE pending[w]]
    /\ UNCHANGED <<log, acked>>

Next ==
  \/ \E w \in Writers : Reserve(w) \/ Commit(w) \/ Acknowledge(w)
  \/ Abandon

Spec == Init /\ [][Next]_ledgerVars
=============================================================================
