----------------------------- MODULE DoubleRatchet -----------------------------
(***************************************************************************)
(* The state of one end of a Double Ratchet session and what encrypt and   *)
(* decrypt do to it (class RatchetSession of ratchet.py), with symbolic    *)
(* keys.                                                                   *)
(*                                                                         *)
(* A key pair is any value. The agreement of two pairs is the set of both. *)
(* A root key is the sequence of what was mixed into it: the secret of the *)
(* handshake, then the agreements. A chain key is the root key it comes    *)
(* from and its number of steps, and gives one message key per step: two   *)
(* ends have the same key exactly when they have mixed the same things in  *)
(* the same order. A message opens with exactly the key that sealed it.    *)
(***************************************************************************)
EXTENDS Integers, Sequences, SequencesExt

CONSTANT MaxSkipped  \* MAX_SKIPPED_KEYS

ASSUME SkippedAssumption == MaxSkipped \in Nat

NoKey == <<>>     \* no key pair
NoChain == <<>>   \* no chain key

\* _kdf_rk.
Mixed(root, own, other) == Append(root, {own, other})

\* init_initiator; key is the pair it generates.
InitInitiator(secret, spk, key) ==
  LET root == Mixed(<<secret>>, key, spk)
  IN  [root |-> root, dhs |-> key, dhr |-> spk, send |-> root, recv |-> NoChain,
       sn |-> 0, rn |-> 0, pn |-> 0, skipped |-> <<>>]

\* init_responder.
InitResponder(secret, spk) ==
  [root |-> <<secret>>, dhs |-> spk, dhr |-> NoKey, send |-> NoChain, recv |-> NoChain,
   sn |-> 0, rn |-> 0, pn |-> 0, skipped |-> <<>>]

\* encrypt: the header of the next message, with the key that seals it, and the
\* state after it.
Sealed(s) == [dh |-> s.dhs, pn |-> s.pn, n |-> s.sn, key |-> <<s.send, s.sn>>]
AfterSeal(s) == [s EXCEPT !.sn = @ + 1]

------------------------------------------------------------------------------
(* decrypt *)

\* The dictionary of skipped keys in order of insertion; the oldest ones go.
Store(skipped, e) ==
  IF \E i \in DOMAIN skipped : <<skipped[i].dh, skipped[i].n>> = <<e.dh, e.n>>
  THEN [i \in DOMAIN skipped |->
          IF <<skipped[i].dh, skipped[i].n>> = <<e.dh, e.n>> THEN e ELSE skipped[i]]
  ELSE LET all == Append(skipped, e)
       IN  IF Len(all) > MaxSkipped THEN Tail(all) ELSE all

\* The keys of a receiving chain from its position up to until.
Passed(s, until) ==
  [i \in 1 .. until - s.rn |-> [dh |-> s.dhr, n |-> s.rn + i - 1, key |-> <<s.recv, s.rn + i - 1>>]]

\* The store after keys was put into it, one key after the other.
Stored(skipped, keys) ==
  LET put[i \in 0 .. Len(keys)] == IF i = 0 THEN skipped ELSE Store(put[i - 1], keys[i])
  IN  put[Len(keys)]

TooFar(s, until) == s.recv # NoChain /\ until - s.rn > MaxSkipped

\* _skip_recv, where it is not TooFar.
Skip(s, until) ==
  IF s.recv = NoChain \/ until <= s.rn
  THEN s
  ELSE [s EXCEPT !.skipped = Stored(@, Passed(s, until)), !.rn = until]

\* _dh_ratchet_step; key is the pair it generates.
Step(s, dh, key) ==
  LET received == Mixed(s.root, s.dhs, dh)
      root == Mixed(received, key, dh)
  IN  [root |-> root, dhs |-> key, dhr |-> dh, send |-> root, recv |-> received,
       sn |-> 0, rn |-> 0, pn |-> s.sn, skipped |-> s.skipped]

\* Mutant: the rest of the old chain is not kept before the step.
Turned_Forgetful(s, m, key) == IF m.dh = s.dhr THEN s ELSE Step(s, m.dh, key)

\* The state on the receiving chain of message m.
Turned(s, m, key) ==
  IF m.dh = s.dhr THEN s ELSE Step(Skip(s, m.pn), m.dh, key)

Kept(s, m) == {i \in DOMAIN s.skipped : <<s.skipped[i].dh, s.skipped[i].n>> = <<m.dh, m.n>>}

\* Mutant: a skipped key stays after its use.
OpenKept_Stays(s, m) ==
  LET i == CHOOSE j \in Kept(s, m) : TRUE
  IN  [ok |-> s.skipped[i].key = m.key, over |-> FALSE, s |-> s]

\* Message m opens with a key that was kept for it.
OpenKept(s, m) ==
  LET i == CHOOSE j \in Kept(s, m) : TRUE
  IN  [ok |-> s.skipped[i].key = m.key, over |-> FALSE,
       s |-> [s EXCEPT !.skipped = RemoveAt(@, i)]]

\* Message m opens with the next key of its chain. The state has changed by the
\* time the key turns out to be wrong.
OpenNext(s, m, key) ==
  LET turned == Turned(s, m, key)
      at == Skip(turned, m.n)
  IN  IF m.dh # s.dhr /\ TooFar(s, m.pn)
      THEN [ok |-> FALSE, over |-> TRUE, s |-> s]
      ELSE IF TooFar(turned, m.n)
      THEN [ok |-> FALSE, over |-> TRUE, s |-> turned]
      ELSE [ok |-> m.key = <<at.recv, at.rn>>,
            over |-> Len(at.skipped) = MaxSkipped,
            s |-> [at EXCEPT !.rn = @ + 1]]

\* decrypt: whether m opens, whether a key may have been given up for want of
\* room, and the state afterwards.
Opened(s, m, key) == IF Kept(s, m) # {} THEN OpenKept(s, m) ELSE OpenNext(s, m, key)

\* The keys that the state of an end still gives: those kept, and those of its
\* two chains from their positions on.
Gives(s, k) ==
  \/ \E i \in DOMAIN s.skipped : s.skipped[i].key = k
  \/ k[1] = s.recv /\ k[2] >= s.rn
  \/ k[1] = s.send /\ k[2] >= s.sn
==============================================================================
