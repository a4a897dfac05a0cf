---------------------------- MODULE SecretStore ----------------------------
(***************************************************************************)
(* One platform secret (shared/secret-store/secrets.service.ts): its       *)
(* encrypted row in platform_secrets, the value SecretsService caches for  *)
(* the life of the process, and the requests that read, store and clear    *)
(* it.  The store is enabled (SECRETS_MASTER_KEY is set); a value whose    *)
(* ciphertext does not decrypt falls back to the environment like no row.  *)
(***************************************************************************)
EXTENDS Integers

CONSTANTS
  Caller,    \* calls of get(), set() and clear() that may be in flight together
  Value,     \* the values an administrator may store
  Corrupted  \* the values whose ciphertext does not decrypt

\* Asserted by the module that instantiates this one.
SecretStoreAssumption == Corrupted \subseteq Value

VARIABLES
  stored, \* the row's value, or NoRow
  cached, \* the cached value, or NotCached
  call,   \* call[c]: the local variables of a call
  raced   \* history: whether a get() was between its query and its fill when the cache
          \* entry was last deleted

secretVars == <<stored, cached, call, raced>>

NoRow == "no row"
NotCached == "not cached"
Env == "environment"

Quiet == [pc |-> "idle", value |-> NoRow]

Init ==
  /\ stored = NoRow
  /\ cached = NotCached
  /\ call = [c \in Caller |-> Quiet]
  /\ raced = FALSE

\* The value a row stands for: decrypted, or else the environment's.
Resolved(r) == IF r = NoRow \/ r \in Corrupted THEN Env ELSE r

-----------------------------------------------------------------------------
\* get(): a cached value is returned at once ...
GetMisses(c) ==
  /\ call[c].pc = "idle"
  /\ cached = NotCached
  /\ call' = [call EXCEPT ![c].pc = "query"]
  /\ UNCHANGED <<stored, cached, raced>>

\* ... another one is read from the row ...
Query(c) ==
  /\ call[c].pc = "query"
  /\ call' = [call EXCEPT ![c] = [pc |-> "fill", value |-> Resolved(stored)]]
  /\ UNCHANGED <<stored, cached, raced>>

\* ... and cached, whatever happened in between.
Fill(c) ==
  /\ call[c].pc = "fill"
  /\ cached' = call[c].value
  /\ call' = [call EXCEPT ![c] = Quiet]
  /\ UNCHANGED <<stored, raced>>

\* set() and clear() write the row ...
Put(c, v) ==
  /\ call[c].pc = "idle"
  /\ stored' = v
  /\ call' = [call EXCEPT ![c].pc = "forget"]
  /\ UNCHANGED <<cached, raced>>

Filling == \E c \in Caller : call[c].pc = "fill"

\* Mutant: the cache is left to expire.
Forget_Never(c) ==
  /\ call[c].pc = "forget"
  /\ raced' = Filling
  /\ call' = [call EXCEPT ![c] = Quiet]
  /\ UNCHANGED <<stored, cached>>

\* ... and delete the cached value.
Forget(c) ==
  /\ call[c].pc = "forget"
  /\ cached' = NotCached
  /\ raced' = Filling
  /\ call' = [call EXCEPT ![c] = Quiet]
  /\ UNCHANGED stored

\* The process restarts: the cache and the calls are gone.
Restart ==
  /\ cached' = NotCached
  /\ call' = [c \in Caller |-> Quiet]
  /\ raced' = FALSE
  /\ UNCHANGED stored

Next ==
  \/ \E c \in Caller : GetMisses(c) \/ Query(c) \/ Fill(c) \/ Forget(c)
  \/ \E c \in Caller : \E v \in Value \cup {NoRow} : Put(c, v)
  \/ Restart

-----------------------------------------------------------------------------
\* What get() returns is what the store resolves to, once no set() or clear() is in flight:
\* a read that straddles one is the only thing that keeps an old value in the cache.
CacheCurrent ==
  (~raced /\ \A c \in Caller : call[c].pc # "forget")
    => cached \in {NotCached, Resolved(stored)}
=============================================================================
