---------------------------- MODULE ResultCache ----------------------------
(***************************************************************************)
(* What AsyncCacheStore (src/src/core/cache_store.py) promises to those    *)
(* who use it: an accepted write is owed to the database until it is       *)
(* saved, writes are saved in the order in which they were accepted, and   *)
(* the one who closes the store is told when something owed was lost.      *)
(***************************************************************************)
EXTENDS Naturals, Sequences

CONSTANTS
  Keys,     \* the cache keys
  Values,   \* the entries
  NoValue   \* no entry under a key

VARIABLES
  saved,   \* key -> entry in the database, or NoValue
  owed,    \* the writes accepted and not saved, oldest first
  open,    \* the store is open
  broken,  \* nothing will be saved any more
  told     \* what the last close said

cacheVars == <<saved, owed, open, broken, told>>

\* A put_many: some keys, each with its entry; with no key it changes nothing.
Updates == UNION {[ks -> Values] : ks \in SUBSET Keys}

Mentions(us, k) == {i \in DOMAIN us : k \in DOMAIN us[i]}
LastOf(is) == CHOOSE i \in is : \A j \in is : j <= i

\* The table after the writes us, one after the other.
Overlaid(table, us) ==
  [k \in Keys |-> IF Mentions(us, k) = {} THEN table[k]
                  ELSE us[LastOf(Mentions(us, k))][k]]

Blank == [k \in Keys |-> NoValue]

CacheTypeOK ==
  /\ saved \in [Keys -> Values \cup {NoValue}]
  /\ owed \in Seq(Updates)
  /\ open \in BOOLEAN /\ broken \in BOOLEAN
  /\ told \in {"nothing", "kept", "failed", "cancelled"}

CacheInit ==
  /\ saved \in [Keys -> Values \cup {NoValue}] /\ owed = <<>>
  /\ open = FALSE /\ broken = FALSE /\ told = "nothing"

\* While it is being opened, an empty database takes over the entries of the
\* legacy file.
Import ==
  /\ ~open /\ saved = Blank
  /\ saved' \in [Keys -> Values \cup {NoValue}]
  /\ UNCHANGED <<owed, open, broken, told>>

Open ==
  /\ ~open
  /\ open' = TRUE /\ broken' = FALSE /\ told' = "nothing"
  /\ UNCHANGED <<saved, owed>>

Accept(u) ==
  /\ open
  /\ owed' = Append(owed, u)
  /\ UNCHANGED <<saved, open, broken, told>>

\* The oldest n writes reach the database, all in one transaction.
Save(n) ==
  /\ ~broken
  /\ saved' = Overlaid(saved, SubSeq(owed, 1, n))
  /\ owed' = SubSeq(owed, n + 1, Len(owed))
  /\ UNCHANGED <<open, broken, told>>

Break ==
  /\ open /\ broken' = TRUE
  /\ UNCHANGED <<saved, owed, open, told>>

\* A close says "kept" only when nothing is owed and no write failed; an error
\* of its own or its cancellation may be all that it says.
Close ==
  /\ open /\ open' = FALSE /\ broken' = FALSE
  /\ \/ owed = <<>> /\ ~broken /\ told' = "kept"
     \/ (owed = <<>> \/ broken) /\ told' \in {"failed", "cancelled"}
  /\ owed' = <<>>
  /\ UNCHANGED saved

\* The process dies.
Die ==
  /\ open' = FALSE /\ broken' = FALSE /\ owed' = <<>> /\ told' = "nothing"
  /\ UNCHANGED saved

CacheNext ==
  \/ Import \/ Open \/ Break \/ Close \/ Die
  \/ \E u \in Updates : Accept(u)
  \/ \E n \in 1..Len(owed) : Save(n)

CacheSpec == CacheInit /\ [][CacheNext]_cacheVars
=============================================================================
