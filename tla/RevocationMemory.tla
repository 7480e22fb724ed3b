-------------------------- MODULE RevocationMemory --------------------------
(***************************************************************************)
(* InMemoryRevocationStore (internal/storage/revocation_memory.go): a map  *)
(* from (class, epoch) or (class, every epoch) to the instant until which  *)
(* the revocation stands.  Each method holds the store's mutex for its     *)
(* whole body, so each is one action; time passes between them.            *)
(***************************************************************************)
EXTENDS Integers

CONSTANTS Class, Epoch,
          AllEpochs,      \* the empty epoch: the entry covers the class
          Forever,        \* a nil RevokedUntil
          MaxNow          \* bound on the clock

VARIABLES now,      \* time.Now()
          entries   \* s.store, a partial function

vars == <<now, entries>>

Scope == Epoch \cup {AllEpochs}
Key == Class \X Scope
Until == Nat \cup {Forever}

IsMap(map) ==
  /\ DOMAIN map \subseteq Key
  /\ \A k \in DOMAIN map : map[k] \in Until

TypeOK == now \in 0..MaxNow /\ IsMap(entries)

\* time.Now().After(*RevokedUntil): the last instant still counts.
Expired(until) == until # Forever /\ now > until

\* revocationKey: the class's own key when the epoch is empty.
revocationKey(class, epoch) == <<class, epoch>>

\* The entry's own key decides when it is there, expired or not; the
\* class-wide one is looked up only when it is not.
GoverningKey(class, epoch) ==
  IF revocationKey(class, epoch) \in DOMAIN entries
    THEN revocationKey(class, epoch)
    ELSE revocationKey(class, AllEpochs)

\* Mutant: only the class-and-epoch key is looked up.
IsRevokedOwnKeyOnly(class, epoch) ==
  /\ revocationKey(class, epoch) \in DOMAIN entries
  /\ ~ Expired(entries[revocationKey(class, epoch)])

IsRevoked(class, epoch) ==
  /\ GoverningKey(class, epoch) \in DOMAIN entries
  /\ ~ Expired(entries[GoverningKey(class, epoch)])

Put(map, key, value) ==
  [k \in DOMAIN map \cup {key} |-> IF k = key THEN value ELSE map[k]]

Drop(map, key) == [k \in DOMAIN map \ {key} |-> map[k]]

Empty == [k \in {} |-> Forever]

Init == now = 0 /\ entries = Empty

\* An upsert; the store itself accepts an instant already past.
RevokeClass(class, scope, until) ==
  /\ entries' = Put(entries, revocationKey(class, scope), until)
  /\ UNCHANGED now

UnrevokeClass(class, scope) ==
  /\ entries' = Drop(entries, revocationKey(class, scope))
  /\ UNCHANGED now

\* Close replaces the map by an empty one and the store goes on answering.
Close ==
  /\ entries' = Empty
  /\ UNCHANGED now

Tick ==
  /\ now < MaxNow
  /\ now' = now + 1
  /\ UNCHANGED entries

Next ==
  \/ \E class \in Class, scope \in Scope :
       \/ \E until \in 0..MaxNow \cup {Forever} : RevokeClass(class, scope, until)
       \/ UnrevokeClass(class, scope)
  \/ Close
  \/ Tick

Spec == Init /\ [][Next]_vars
=============================================================================
