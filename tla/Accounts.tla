-------------------------------- MODULE Accounts -------------------------------
(***************************************************************************)
(* What the web server keeps of one registered name: the account with its  *)
(* password hash (ACCOUNTS_FILE), the identity encrypted with the same     *)
(* password (identity.key), the same identity encrypted with a recovery    *)
(* code (identity.recovery), and the messenger in memory (users).          *)
(*                                                                         *)
(* The routes run in threads of their own: registration and login          *)
(* (api_login, UserMessenger.__init__), a new code (api_recovery_generate),*)
(* a reset with a code (api_recovery_reset), the deletion of the name      *)
(* (admin_delete) and, of other names, the registration, as it writes the  *)
(* whole accounts file anew. A file is truncated and then written, and     *)
(* nothing makes the two one: an empty or half-written accounts file reads *)
(* as no accounts, an empty identity.key as no identity. A crash may come  *)
(* between any two steps.                                                  *)
(*                                                                         *)
(* Passwords and codes are right or wrong as a whole; hashing, scrypt, the *)
(* limits on attempts, cookies (WebPresence) and prekeys (DMSessions) are  *)
(* left out. A route that refuses changes nothing here and has no step.    *)
(***************************************************************************)
EXTENDS Integers, FiniteSets

CONSTANTS Slots,        \* the threads that serve requests
          Passwords,
          MaxAsked,     \* bounds of the number of requests,
          MaxIds,       \* ... of identities generated,
          MaxCodes,     \* ... of recovery codes,
          MaxCrashes    \* ... of crashes

ASSUME AccountsAssumption == {MaxAsked, MaxIds, MaxCodes, MaxCrashes} \subseteq Nat

VARIABLES accounts,  \* the password of the name, in a set; {} if it has no account
          key,       \* identity.key: identity and password, in a set; {} if empty or missing
          rec,       \* identity.recovery: identity and code, likewise
          dir,       \* is there a directory .messenger_<name>?
          messenger, \* the identity of users[name], in a set
          lock,      \* the thread that holds users_lock, in a set
          serve      \* thread -> the request it serves, and where it is

\* History.
VARIABLES asked,     \* number of requests
          ids,       \* number of identities generated
          codes,     \* number of codes
          crashes,   \* number of crashes
          remembered,  \* passwords of the owner
          shown,     \* codes that the owner was shown
          first,     \* the identity that the name had first, in a set
          torn,      \* a crash has left identity.key empty
          overlapped,  \* two requests have overlapped
          clash      \* see Clashes, and Crash

kept == <<accounts, key, rec, dir>>
acHistory == <<asked, ids, codes, crashes, remembered, shown, first, torn, overlapped, clash>>
acVars == <<kept, messenger, lock, serve, acHistory>>

\* A request: the password it brings, the identity it has in hand, and what it
\* is going to write to the accounts file. orphan: what it has open was unlinked.
Serving(kind, at, pw, id, snap) ==
  [kind |-> kind, at |-> at, pw |-> pw, id |-> id, snap |-> snap, orphan |-> FALSE]
NoRequest == Serving("none", "idle", 0, 0, {})

IdleSlot(r) == serve[r] = NoRequest
Proceed(r, at) == serve' = [serve EXCEPT ![r].at = at]
Finish(r) == serve' = [serve EXCEPT ![r] = NoRequest]

Requests ==
  [kind : {"none", "register", "login", "code", "reset", "delete", "other"},
   at : {"idle", "save", "write", "enter", "relay", "key", "keywrite", "code", "codewrite",
         "answer", "pop", "purge"},
   pw : Passwords \cup {0}, id : Nat, snap : SUBSET (Passwords \cup Nat), orphan : BOOLEAN]

\* The places that a request of each kind passes.
OnRoute(s) ==
  \/ s.kind = "none" /\ s = NoRequest
  \/ s.kind = "register" /\ s.at \in {"save", "write", "enter", "key", "keywrite", "relay"}
  \/ s.kind = "login" /\ s.at \in {"enter", "key", "keywrite", "relay"}
  \/ s.kind = "code" /\ s.at \in {"code", "codewrite", "answer"}
  \/ s.kind = "reset" /\ s.at \in {"key", "keywrite", "save", "write", "code", "codewrite", "answer"}
  \/ s.kind = "delete" /\ s.at \in {"save", "write", "pop", "purge"}
  \/ s.kind = "other" /\ s.at \in {"save", "write"}

WellFormed(s) ==
  /\ OnRoute(s)
  /\ IF s.at = "answer"
     THEN s.snap \subseteq Nat
     ELSE \A pw \in s.snap : pw \in Passwords /\ s.snap = {pw}

ACTypeOK ==
  /\ \A pw \in accounts : pw \in Passwords /\ accounts = {pw}
  /\ \A k \in key : k \in [id : Nat, pw : Passwords \cup {0}] /\ key = {k}
  /\ \A x \in rec : x \in [id : Nat, code : Nat] /\ rec = {x}
  /\ dir \in BOOLEAN
  /\ messenger \subseteq Nat
  /\ lock \subseteq Slots
  /\ serve \in [Slots -> Requests] /\ \A r \in Slots : WellFormed(serve[r])
  /\ asked \in 0 .. MaxAsked /\ ids \in 0 .. MaxIds
  /\ codes \in 0 .. MaxCodes /\ crashes \in 0 .. MaxCrashes
  /\ remembered \subseteq Passwords
  /\ shown \subseteq Nat
  /\ first \subseteq Nat
  /\ torn \in BOOLEAN /\ overlapped \in BOOLEAN /\ clash \in BOOLEAN

ACInit ==
  /\ accounts = {} /\ key = {} /\ rec = {} /\ dir = FALSE
  /\ messenger = {} /\ lock = {}
  /\ serve = [r \in Slots |-> NoRequest]
  /\ asked = 0 /\ ids = 0 /\ codes = 0 /\ crashes = 0
  /\ remembered = {} /\ shown = {} /\ first = {}
  /\ torn = FALSE /\ overlapped = FALSE /\ clash = FALSE

------------------------------------------------------------------------------
(* Requests, up to what they read first *)

Others(r) == {q \in Slots \ {r} : ~IdleSlot(q)}

\* Requests overlap that are not all resets, or a name is registered whose
\* identity.key was left behind under another password.
Clashes(r, request) ==
  \/ \E q \in Others(r) : {serve[q].kind, request.kind} # {"reset"}
  \/ request.kind = "register" /\ \E k \in key : k.pw # request.pw

Begin(r, request, keep) ==
  /\ IdleSlot(r)
  /\ asked < MaxAsked
  /\ asked' = asked + 1
  /\ serve' = [serve EXCEPT ![r] = request]
  /\ overlapped' = (overlapped \/ Others(r) # {})
  /\ clash' = (clash \/ Clashes(r, request))
  /\ remembered' = keep
  /\ UNCHANGED <<accounts, key, dir, messenger, lock, ids, codes, crashes, shown, first, torn>>

\* api_login: the name is looked up before it is saved.
RequestRegister(r, pw) ==
  /\ accounts = {}
  /\ Begin(r, Serving("register", "save", pw, 0, {pw}), remembered \cup {pw})
  /\ UNCHANGED rec

RequestLogin(r, pw) ==
  /\ accounts = {pw}
  /\ Begin(r, Serving("login", "enter", pw, 0, {}), remembered \cup {pw})
  /\ UNCHANGED rec

\* api_recovery_generate.
RequestCode(r) ==
  /\ \E id \in messenger : Begin(r, Serving("code", "code", 0, id, {}), remembered)
  /\ UNCHANGED rec

\* Mutant: a code is spent as soon as it has opened the identity.
WhenUsed_Spent == {}

\* consume_recovery_code only reads.
WhenUsed == rec

\* api_recovery_reset: who asks for it has forgotten every password but the new one.
RequestReset(r, pw) ==
  /\ accounts # {}
  /\ \E x \in rec :
       /\ x.code \in shown
       /\ Begin(r, Serving("reset", "key", pw, x.id, {pw}),
                IF \E q \in Others(r) : serve[q].kind = "reset"
                THEN remembered \cup {pw}
                ELSE {pw})
  /\ rec' = WhenUsed

\* admin_delete.
RequestDelete(r) ==
  /\ accounts # {}
  /\ Begin(r, Serving("delete", "save", 0, 0, {}), remembered)
  /\ UNCHANGED rec

\* Somebody registers another name: the account of this one is in what was read.
RequestOther(r) ==
  /\ Begin(r, Serving("other", "save", 0, 0, accounts), remembered)
  /\ UNCHANGED rec

------------------------------------------------------------------------------
(* _save_json of the accounts *)

TruncateAccounts(r) ==
  /\ serve[r].at = "save"
  /\ accounts' = {}
  /\ Proceed(r, "write")
  /\ UNCHANGED <<key, rec, dir, messenger, lock, acHistory>>

WriteAccounts(r) ==
  /\ serve[r].at = "write"
  /\ accounts' = serve[r].snap
  /\ CASE serve[r].kind = "register" -> Proceed(r, "enter")
       [] serve[r].kind = "reset" -> Proceed(r, "code")
       [] serve[r].kind = "delete" -> Proceed(r, "pop")
       [] serve[r].kind = "other" -> Finish(r)
  /\ UNCHANGED <<key, rec, dir, messenger, lock, acHistory>>

------------------------------------------------------------------------------
(* The messenger: UserMessenger.__init__ and register(), under users_lock *)

OpensWith(pw) == {k.id : k \in {x \in key : x.pw = pw}}

\* Mutant: an identity that does not open is replaced like one that is not there.
Replaceable_Locked(pw) == OpensWith(pw) = {}

\* identity.key is missing or empty.
Replaceable(pw) == key = {}

\* An identity that does not open ends the request: "Wrong password".
Enter(r) ==
  LET pw == serve[r].pw
  IN  /\ serve[r].at = "enter"
      /\ lock = {}
      /\ \/ /\ messenger # {}
            /\ Finish(r)
            /\ UNCHANGED <<lock, dir, ids>>
         \/ /\ messenger = {} /\ ~Replaceable(pw) /\ OpensWith(pw) = {}
            /\ Finish(r)
            /\ dir' = TRUE
            /\ UNCHANGED <<lock, ids>>
         \/ /\ messenger = {} /\ ~Replaceable(pw)
            /\ \E id \in OpensWith(pw) :
                 serve' = [serve EXCEPT ![r].at = "relay", ![r].id = id]
            /\ lock' = {r}
            /\ dir' = TRUE
            /\ UNCHANGED ids
         \/ /\ messenger = {} /\ Replaceable(pw) /\ ids < MaxIds
            /\ ids' = ids + 1
            /\ serve' = [serve EXCEPT ![r].at = "key", ![r].id = ids + 1]
            /\ lock' = {r}
            /\ dir' = TRUE
      /\ UNCHANGED <<accounts, key, rec, messenger, asked, codes, crashes, remembered,
                     shown, first, torn, overlapped, clash>>

\* register() asks the relay; without an answer the messenger is dropped.
JoinRelay(r) ==
  /\ serve[r].at = "relay"
  /\ messenger' \in {{serve[r].id}, {}}
  /\ lock' = {}
  /\ Finish(r)
  /\ UNCHANGED <<kept, acHistory>>

------------------------------------------------------------------------------
(* Identity.save; without its directory it fails, and the request with it *)

TruncateKey(r) ==
  /\ serve[r].at = "key"
  /\ IF dir
     THEN key' = {} /\ Proceed(r, "keywrite") /\ UNCHANGED lock
     ELSE Finish(r) /\ lock' = lock \ {r} /\ UNCHANGED key
  /\ UNCHANGED <<accounts, rec, dir, messenger, acHistory>>

WriteKey(r) ==
  LET s == serve[r]
  IN  /\ s.at = "keywrite"
      /\ key' = IF s.orphan THEN key ELSE {[id |-> s.id, pw |-> s.pw]}
      /\ first' = IF first = {} THEN {s.id} ELSE first
      /\ serve' = [serve EXCEPT ![r].at = IF s.kind = "reset" THEN "save" ELSE "relay",
                                ![r].orphan = FALSE]
      /\ UNCHANGED <<accounts, rec, dir, messenger, lock, asked, ids, codes, crashes,
                     remembered, shown, torn, overlapped, clash>>

------------------------------------------------------------------------------
(* generate_recovery_code *)

TruncateCode(r) ==
  /\ serve[r].at = "code"
  /\ rec' = {} /\ dir' = TRUE
  /\ Proceed(r, "codewrite")
  /\ UNCHANGED <<accounts, key, messenger, lock, acHistory>>

WriteCode(r) ==
  LET s == serve[r]
  IN  /\ s.at = "codewrite"
      /\ codes < MaxCodes
      /\ codes' = codes + 1
      /\ rec' = IF s.orphan THEN rec ELSE {[id |-> s.id, code |-> codes + 1]}
      /\ serve' = [serve EXCEPT ![r].at = "answer", ![r].snap = {codes + 1},
                                ![r].orphan = FALSE]
      /\ UNCHANGED <<accounts, key, dir, messenger, lock, asked, ids, crashes, remembered,
                     shown, first, torn, overlapped, clash>>

ShowCode(r) ==
  /\ serve[r].at = "answer"
  /\ shown' = shown \cup serve[r].snap
  /\ Finish(r)
  /\ UNCHANGED <<kept, messenger, lock, asked, ids, codes, crashes, remembered, first, torn,
                 overlapped, clash>>

------------------------------------------------------------------------------
(* admin_delete after the accounts; the crash *)

DropMessenger(r) ==
  /\ serve[r].at = "pop"
  /\ lock = {}
  /\ messenger' = {}
  /\ Proceed(r, "purge")
  /\ UNCHANGED <<kept, lock, acHistory>>

\* purge_username_data: what others have open is unlinked under them.
Purge(r) ==
  /\ serve[r].at = "purge"
  /\ key' = {} /\ rec' = {} /\ dir' = FALSE
  /\ first' = {} /\ torn' = FALSE
  /\ serve' = [q \in Slots |->
                 IF q = r THEN NoRequest
                 ELSE [serve[q] EXCEPT !.orphan = serve[q].at \in {"keywrite", "codewrite"}]]
  /\ UNCHANGED <<accounts, messenger, lock, asked, ids, codes, crashes, remembered, shown,
                 overlapped, clash>>

\* A crash counts as a clash if requests have overlapped before, also resets.
Crash ==
  /\ crashes < MaxCrashes
  /\ crashes' = crashes + 1
  /\ serve' = [r \in Slots |-> NoRequest]
  /\ messenger' = {} /\ lock' = {}
  /\ torn' = (torn \/ \E r \in Slots : serve[r].at = "keywrite")
  /\ clash' = (clash \/ overlapped)
  /\ UNCHANGED <<kept, asked, ids, codes, remembered, shown, first, overlapped>>

ACNext ==
  \/ \E r \in Slots :
       \/ \E pw \in Passwords :
            RequestRegister(r, pw) \/ RequestLogin(r, pw) \/ RequestReset(r, pw)
       \/ RequestCode(r) \/ RequestDelete(r) \/ RequestOther(r)
       \/ TruncateAccounts(r) \/ WriteAccounts(r)
       \/ Enter(r) \/ JoinRelay(r)
       \/ TruncateKey(r) \/ WriteKey(r)
       \/ TruncateCode(r) \/ WriteCode(r) \/ ShowCode(r)
       \/ DropMessenger(r) \/ Purge(r)
  \/ Crash

ACSpec == ACInit /\ [][ACNext]_acVars

------------------------------------------------------------------------------
(* Correctness *)

\* The ways in, were acc the accounts.
WaysIn(acc) ==
  \/ \E pw \in acc \cap remembered : \A k \in key : k.pw = pw
  \/ acc = {} /\ \A k \in key : k.pw \in remembered
  \/ acc # {} /\ \E x \in rec : x.code \in shown

\* Between requests the owner can always get in: with a password that is both
\* the account's and the identity's, with a new registration of a name that has
\* lost its account, or with a code. It holds through a crash at any step of a
\* reset, for somebody who remembers nothing but the new password and the codes
\* shown, and, without a crash, when resets overlap. It does not hold after a clash: two
\* registrations may leave the account with the password of one and the identity
\* with that of the other, and so may one after a crash in a deletion. Nor does it
\* after two crashes: one that breaks off a reset, whose owner remembers only the
\* password that is not yet anywhere, and one that then empties the accounts.
OwnerCanGetIn ==
  (\A r \in Slots : IdleSlot(r)) /\ ~clash /\ crashes <= 1 => WaysIn(accounts)

\* A name keeps the identity it had first, in memory, under the password and
\* under the code, whatever is refused, reset or interrupted, until its deletion.
\* Only a crash that leaves identity.key empty, or requests that overlap (a login
\* that reads identity.key while a reset has truncated it), make another one.
IdentityKept ==
  ~clash /\ ~torn =>
    messenger \cup {x.id : x \in key \cup rec} \subseteq first
==============================================================================
