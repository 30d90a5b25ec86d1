------------------------------- MODULE Codec -------------------------------
(***************************************************************************)
(* How clacks lie in the tables: the bytes of their keys (codec.hpp, the   *)
(* key expressions of materializer.hpp) and the frame of a clack, whose    *)
(* header holds the lengths of the variable fields in fixed widths.        *)
(*                                                                         *)
(* A byte is a number below Base, a string a sequence of bytes.  The code  *)
(* has Base = 256, Width = 8, Slash = 47, One = 49, LenWrap = 256.  The    *)
(* payload, whose length field is wider than any accepted payload, and the *)
(* checksum are left out.                                                  *)
(***************************************************************************)
EXTENDS Integers, FiniteSets, SequencesExt

CONSTANTS Base, Width,       \* an epoch key is Width digits to the base Base
          Slash, One,        \* the bytes '/' and '1'
          IdBytes,           \* the bytes an agent or task id may hold
          LenWrap,           \* a length field counts modulo LenWrap
          MaxAgentLen, MaxTaskLen, MaxSubjectLen

ASSUME CodecAssumption ==
  /\ Base \in Nat \ {0, 1} /\ Width \in Nat \ {0}
  /\ {Slash, One} \subseteq 0..(Base - 1) /\ IdBytes \subseteq 0..(Base - 1)
  /\ Slash \in IdBytes /\ One # Slash
  /\ LenWrap \in Nat /\ {MaxAgentLen, MaxTaskLen, MaxSubjectLen} \subseteq 0..(LenWrap - 1)

-----------------------------------------------------------------------------
(* Keys *)

Byte == 0..(Base - 1)

\* What a shift by n bytes divides by.
Power[n \in 0..Width] == IF n = 0 THEN 1 ELSE Base * Power[n - 1]

\* epoch_key: the high byte first, so that byte order is epoch order.
EpochKey(e) == [i \in 1..Width |-> (e \div Power[Width - i]) % Base]

\* key_to_epoch: the value of the first Width bytes, one after the other.
KeyToEpoch(key) ==
  LET value[i \in 0..Width] == IF i = 0 THEN 0 ELSE value[i - 1] * Base + key[i]
  IN IF Len(key) < Width THEN 0 ELSE value[Width]

Slashed(s, t) == s \o <<Slash>> \o t

\* The order of the storage engine: bytewise, a prefix before what extends it.
Precedes(k, l) ==
  \/ IsStrictPrefix(k, l)
  \/ \E i \in DOMAIN k \cap DOMAIN l :
       k[i] < l[i] /\ SubSeq(k, 1, i - 1) = SubSeq(l, 1, i - 1)

\* prefix_scan: the rows whose key has the prefix, in the order of their keys.
PrefixScan(rows, prefix) ==
  LET hits == {r \in rows : IsPrefix(prefix, r.key)}
      rank(r) == Cardinality({s \in hits : Precedes(s.key, r.key)})
  IN [i \in 1..Cardinality(hits) |-> CHOOSE r \in hits : rank(r) = i - 1]

\* The elements of s that are in T, in their order.
Kept(s, T) ==
  LET places == {i \in DOMAIN s : s[i] \in T}
  IN [k \in 1..Cardinality(places) |->
        s[CHOOSE i \in places : Cardinality({j \in places : j < i}) = k - 1]]

FirstOf(n, s) == SubSeq(s, 1, IF n < Len(s) THEN n ELSE Len(s))
LastOf(n, s) == SubSeq(s, IF n < Len(s) THEN Len(s) - n + 1 ELSE 1, Len(s))

-----------------------------------------------------------------------------
(* Frames *)

Verbs == {"ANNOUNCE", "CLAIM", "YIELD", "PROGRESS", "ARTIFACT", "COMPLETE",
          "ERROR", "QUERY", "RESPOND", "OBSERVE", "DIRECT", "APPROVE", "REJECT",
          "HALT", "RESUME", "HEARTBEAT", "ASK", "ANSWER", "ACK", "RESERVE",
          "RELEASE"}

\* str_to_verb: a name it does not know is an announcement.
StrToVerb(name) == IF name \in Verbs THEN name ELSE "ANNOUNCE"

ValidIdField(id, max) == Len(id) <= max /\ Range(id) \subseteq IdBytes

\* Faulty variant: the subject's limit forgotten.
ValidClickAnySubject(c) ==
  ValidIdField(c.agent, MaxAgentLen) /\ ValidIdField(c.task, MaxTaskLen)

\* validate_click
ValidClick(c) ==
  /\ ValidIdField(c.agent, MaxAgentLen)
  /\ ValidIdField(c.task, MaxTaskLen)
  /\ Len(c.subject) <= MaxSubjectLen

\* click_to_clack: the lengths as the header's one-byte fields hold them.
Lengths(c) == <<Len(c.agent) % LenWrap, Len(c.task) % LenWrap, Len(c.subject) % LenWrap>>

\* serialize_clack: the header, then the texts one after the other.
Serialize(e, c) ==
  [epoch |-> e, click |-> [c EXCEPT !.agent = <<>>, !.task = <<>>, !.subject = <<>>],
   lens |-> Lengths(c), text |-> c.agent \o c.task \o c.subject]

Fits(f) == Len(f.text) >= f.lens[1] + f.lens[2] + f.lens[3]

\* deserialize_clack, of a frame that fits: the texts cut at the lengths.
Deserialize(f) ==
  LET a == f.lens[1]
      t == a + f.lens[2]
      s == t + f.lens[3]
  IN [epoch |-> f.epoch,
      click |-> [f.click EXCEPT !.agent = SubSeq(f.text, 1, a),
                                !.task = SubSeq(f.text, a + 1, t),
                                !.subject = SubSeq(f.text, t + 1, s)]]
=============================================================================
