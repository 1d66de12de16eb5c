--------------------------- MODULE MCCacheClient ---------------------------
(***************************************************************************)
(* Two tasks, a key k that holds nothing, a string or a hash with the one *)
(* field f at start, a key l for list and bitmap calls that holds the      *)
(* list ["1"] at start, and the calls of each world.                       *)
(***************************************************************************)
EXTENDS CacheClient, TLC

CONSTANTS t1, t2

MCTasks == {t1, t2}

C(name) == [name |-> name, key |-> "k", field |-> "f", val |-> "x", idx |-> 0]

L(name, v, i) == [name |-> name, key |-> "l", field |-> "f", val |-> v, idx |-> i]

MCInitStores ==
  {[x \in Keys |-> IF x = "k" THEN v ELSE List(<<"1">>, FALSE)] :
     v \in {Nil, Str(FALSE), Hash({"f"}, FALSE)}}

(* List and bitmap calls on l: a push, LREM of every "1" (which deletes   *)
(* the list), LINSERT after and before the pivot "1" (absent once it is   *)
(* removed), LLEN, LSET of the last element, SETBIT (WRONGTYPE on the     *)
(* list, creating the key once it is gone) and BITCOUNT ... BIT.          *)
MCListCalls ==
  {L("lpush", "x", 0), L("lrem", "1", 0), L("linsert_after", "x", 1),
   L("linsert_before", "x", 1), L("llen", "x", 0),
   L("lset", "x", -1), L("setbit", "x", 0), L("bitcount_range_by_bit", "x", 0)}

(* Confirmed deletes next to readers and writers that only leave keys     *)
(* with a TTL, flushdb, and cmd() used without nesting.                    *)
MCCallsTtl ==
  {C(n) : n \in {"del_confirm", "hdel_confirm", "set_ex", "expire", "exists", "hexists",
                 "get", "ttl", "hget", "flushdb", "cmd"}}
  \cup MCListCalls

(* A confirmed delete next to writers that leave no TTL. *)
MCCallsRace ==
  {C(n) : n \in {"del_confirm", "hdel_confirm", "set", "getset", "incr", "hset", "hset_nx"}}

(* LSET and a push on the list l. *)
MCCallsList == {L("lset", "x", -1), L("lpush", "x", 0)}

(* cmd() and an ordinary command. *)
MCCallsNested == {C(n) : n \in {"cmd", "get"}}

=============================================================================
