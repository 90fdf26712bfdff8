----------------------------- MODULE RatchetThreads -----------------------------
(***************************************************************************)
(* One session as its threads really use it. DMSessions takes encrypting   *)
(* as one step, as the docstring of RatchetSession asks for; but send_dm   *)
(* runs in the thread of each request (api_send) and _decrypt_from in the  *)
(* poll loop, on one object and without a lock. Here encrypt is split      *)
(* where it reads and writes the fields of the session, and so is the turn *)
(* to a new chain that a message of the peer brings (_dh_ratchet_step).    *)
(*                                                                         *)
(* Of decrypting, only what touches the sending side is here. A chain is   *)
(* the number of the key pair it belongs to, a chain key is the chain with *)
(* a position, and it gives the message key of the same position.          *)
(***************************************************************************)
EXTENDS Integers, FiniteSets

CONSTANTS Senders,    \* threads of /api/send to the one peer
          MaxSealed,  \* bounds of the number of messages,
          MaxTurns    \* ... and of turns

VARIABLES sendChain,  \* self.send_chain: the chain and the position
          dhs,        \* self.dhs, self.dhs_pub
          sendN,      \* self.send_n
          sender,     \* thread -> where it is in encrypt, and its chain or message key
          turn,       \* where the poll loop is in _dh_ratchet_step
          turns,      \* number of turns
          sealed      \* what was sent: number of the message, header and key

rtVars == <<sendChain, dhs, sendN, sender, turn, turns, sealed>>

Resting == [at |-> "idle", key |-> <<0, 0>>]

RTInit ==
  /\ sendChain = <<0, 0>> /\ dhs = 0 /\ sendN = 0
  /\ sender = [t \in Senders |-> Resting]
  /\ turn = "idle" /\ turns = 0
  /\ sealed = {}

\* The argument of _kdf_ck is read.
ReadChain(t) ==
  /\ sender[t].at = "idle"
  /\ Cardinality(sealed) + Cardinality({u \in Senders : sender[u] # Resting}) < MaxSealed
  /\ sender' = [sender EXCEPT ![t] = [at |-> "kdf", key |-> sendChain]]
  /\ UNCHANGED <<sendChain, dhs, sendN, turn, turns, sealed>>

\* self.send_chain, msg_key = _kdf_ck(...)
StepChain(t) ==
  /\ sender[t].at = "kdf"
  /\ sendChain' = <<sender[t].key[1], sender[t].key[2] + 1>>
  /\ sender' = [sender EXCEPT ![t].at = "seal"]
  /\ UNCHANGED <<dhs, sendN, turn, turns, sealed>>

\* The header, the count, and the message under its key.
SealWith(t) ==
  /\ sender[t].at = "seal"
  /\ sealed' = sealed \cup
       {[nr |-> Cardinality(sealed) + 1, dh |-> dhs, n |-> sendN, key |-> sender[t].key]}
  /\ sendN' = sendN + 1
  /\ sender' = [sender EXCEPT ![t] = Resting]
  /\ UNCHANGED <<sendChain, dhs, turn, turns>>

\* _dh_ratchet_step: the counters, the new key pair, the new chain.
TurnCounters ==
  /\ turn = "idle" /\ turns < MaxTurns
  /\ turns' = turns + 1
  /\ sendN' = 0
  /\ turn' = "pair"
  /\ UNCHANGED <<sendChain, dhs, sender, sealed>>

TurnPair ==
  /\ turn = "pair"
  /\ dhs' = turns
  /\ turn' = "chain"
  /\ UNCHANGED <<sendChain, sendN, sender, turns, sealed>>

TurnChain ==
  /\ turn = "chain"
  /\ sendChain' = <<turns, 0>>
  /\ turn' = "idle"
  /\ UNCHANGED <<dhs, sendN, sender, turns, sealed>>

RTNext ==
  \/ \E t \in Senders : ReadChain(t) \/ StepChain(t) \/ SealWith(t)
  \/ TurnCounters \/ TurnPair \/ TurnChain

RTSpec == RTInit /\ [][RTNext]_rtVars

------------------------------------------------------------------------------
(* Correctness *)

\* No two messages are sealed with the same key (ratchet-plan.md: "ключ каждого
\* сообщения уникален"), which the reader, who erases a key once it is used,
\* relies on: the second of the two never opens.
MessageKeysUnique == \A m, w \in sealed : m.key = w.key => m = w
==============================================================================
