---------------------------- MODULE CacheClient ----------------------------
(***************************************************************************)
(* TardisCacheClient of tardis/src/cache/cache_client.rs: a deadpool pool  *)
(* of Redis connections shared by concurrent tasks.  Every command takes a *)
(* connection with get_connection(), sends one Redis command and drops the *)
(* connection back into the pool.  del_confirm / hdel_confirm send DEL /   *)
(* HDEL and then loop on EXISTS / HEXISTS until the reply is false.  cmd() *)
(* hands a pooled connection to the caller, who holds it until the end of  *)
(* its scope.                                                              *)
(*                                                                         *)
(* The Redis server is part of the model: a key holds nothing, a string    *)
(* (also the bitmap type), a hash of fields or a list of elements, with or *)
(* without a TTL; string contents are abstracted away.  Replies are        *)
(* converted to the method's return type by redis-rs.                      *)
(* The server can become unreachable and come back.                        *)
(***************************************************************************)
EXTENDS Integers, Sequences, SequencesExt, FiniteSets

CONSTANTS
  Tasks,          \* concurrent tasks sharing the client
  Keys,           \* Redis keys
  Fields,         \* hash fields
  Calls,          \* the calls a task may make: [name, key, field, val, idx] records
  Elems,          \* list elements and pushed values
  Redis7,         \* the server is Redis 7 or later (BITCOUNT ... BIT)
  NegativeUsize,  \* how the redis-rs build converts a negative integer reply
                  \* to usize: "wrap" (as usize) or "error" (try_from)
  InitStores,     \* possible key spaces at start
  MaxSize,        \* deadpool max_size
  MaxCalls,       \* bound on calls per task
  MaxFaults,      \* bound on server outages
  NestWhileHolding \* a task may call the client while it holds a cmd() connection

ASSUME MaxSize \in Nat \ {0} /\ MaxCalls \in Nat /\ MaxFaults \in Nat
ASSUME NegativeUsize \in {"wrap", "error"} /\ Redis7 \in BOOLEAN /\ NestWhileHolding \in BOOLEAN

Nil == [kind |-> "none"]
Str(ttl) == [kind |-> "string", ttl |-> ttl]
Hash(fs, ttl) == [kind |-> "hash", fields |-> fs, ttl |-> ttl]
List(es, ttl) == [kind |-> "list", elems |-> es, ttl |-> ttl]

IsRedisValue(v) ==
  \/ v = Nil
  \/ v \in {Str(b) : b \in BOOLEAN}
  \/ v \in {Hash(fs, b) : fs \in (SUBSET Fields) \ {{}}, b \in BOOLEAN}
  \/ v.kind = "list" /\ v.elems \in Seq(Elems) /\ v.elems # <<>> /\ v.ttl \in BOOLEAN

ConfirmOps == {"del_confirm", "hdel_confirm"}

(* The call slot of a task that is not inside a method. *)
NoCall == [name |-> "none", key |-> "none", field |-> "none", val |-> "none", idx |-> 0]

VARIABLES
  store,    \* the Redis key space
  up,       \* the Redis server is reachable
  faults,   \* outages so far
  free,     \* connections the pool can hand out
  pc,       \* per task: "idle" | "get_conn" | "exec"
  call,     \* per task: the call in progress, NoCall when idle
  stage,    \* per task: "run", or for a confirm call "del" then "check"
  held,     \* per task: connections returned by cmd() and not dropped
  ret,      \* per task: "none" | "ok" | "err", the result of the last call
  calls     \* per task: calls made

vars == <<store, up, faults, free, pc, call, stage, held, ret, calls>>

-----------------------------------------------------------------------------
(* The Redis command a call sends at a stage. *)
Command(c, st) ==
  CASE c.name = "del_confirm"  -> IF st = "del" THEN "del" ELSE "exists"
    [] c.name = "hdel_confirm" -> IF st = "del" THEN "hdel" ELSE "hexists"
    [] OTHER                   -> c.name

(* Redis semantics of one command on the key space: the new key space,    *)
(* whether it failed (WRONGTYPE) and its boolean reply.                   *)
Reply(s, err, b) == [store |-> s, err |-> err, bool |-> b]

(* Hash commands: WRONGTYPE on a string or list key; HSET, HSETNX and HINCRBY     *)
(* add the field (keeping the key's TTL), HDEL removes it and deletes a    *)
(* hash left empty; the others only read.                                  *)
ApplyHash(cmd, k, f, s) ==
  LET v   == s[k]
      has == v # Nil /\ f \in v.fields
      add == [s EXCEPT ![k] = IF v = Nil THEN Hash({f}, FALSE) ELSE Hash(v.fields \cup {f}, v.ttl)]
  IN IF v.kind \in {"string", "list"} THEN Reply(s, TRUE, FALSE)
     ELSE CASE cmd \in {"hset", "hincr"} -> Reply(add, FALSE, FALSE)
            [] cmd = "hset_nx" -> Reply(add, FALSE, ~has)
            [] cmd = "hdel"    -> Reply([s EXCEPT ![k] = IF v = Nil \/ v.fields \subseteq {f} THEN Nil
                                                         ELSE Hash(v.fields \ {f}, v.ttl)], FALSE, FALSE)
            [] cmd = "hexists" -> Reply(s, FALSE, has)
            [] cmd \in {"hget", "hkeys", "hvals", "hgetall", "hlen"} -> Reply(s, FALSE, FALSE)

HashCommands ==
  {"hset", "hincr", "hset_nx", "hdel", "hexists", "hget", "hkeys", "hvals", "hgetall", "hlen"}

(* An isize argument as the string Redis receives (a pivot of LINSERT). *)
Decimal(i) == IF i < 0 THEN "-1" ELSE IF i = 0 THEN "0" ELSE "1"

(* LREM key count value: the first count matches from the head, the last *)
(* -count from the tail, every match for 0 (|count| <= 1 here).          *)
Removed(es, count, x) ==
  LET first == SelectInSeq(es, LAMBDA e : e = x)
      last  == SelectLastInSeq(es, LAMBDA e : e = x)
  IN CASE count = 0 -> Remove(es, x)
       [] count > 0 -> IF first = 0 THEN es ELSE RemoveAt(es, first)
       [] count < 0 -> IF last = 0 THEN es ELSE RemoveAt(es, last)

(* List commands (lines 141-179): WRONGTYPE on a string or hash key; a    *)
(* list left empty is deleted; a push keeps the key's TTL.  linsert_* pass *)
(* their `count` as the pivot element: Redis replies 0 without the key and *)
(* -1 without the pivot, which the usize return type turns into a wrapped  *)
(* number or a conversion error.  LSET replies +OK, which redis-rs cannot  *)
(* convert to usize: lset reports an error whether or not it wrote.        *)
ApplyList(cmd, c, s) ==
  LET k   == c.key
      v   == s[k]
      es  == IF v = Nil THEN <<>> ELSE v.elems
      put(xs) == [s EXCEPT ![k] = IF xs = <<>> THEN Nil
                                  ELSE List(xs, v # Nil /\ v.ttl)]
      ok(s2)  == Reply(s2, FALSE, FALSE)
      at  == SelectInSeq(es, LAMBDA e : e = Decimal(c.idx))
      pos == IF c.idx < 0 THEN Len(es) + c.idx + 1 ELSE c.idx + 1
  IN IF v.kind \in {"string", "hash"} THEN Reply(s, TRUE, FALSE)
     ELSE CASE cmd = "lpush" -> ok(put(<<c.val>> \o es))
            [] cmd = "rpush" -> ok(put(Append(es, c.val)))
            [] cmd \in {"lrangeall", "llen"} -> ok(s)
            [] cmd = "lrem"  -> ok(put(Removed(es, c.idx, c.val)))
            [] cmd \in {"linsert_after", "linsert_before"} ->
                 IF v = Nil THEN ok(s)
                 ELSE IF at = 0 THEN Reply(s, NegativeUsize = "error", FALSE)
                 ELSE ok(put(InsertAt(es, IF cmd = "linsert_after" THEN at + 1 ELSE at, c.val)))
            [] cmd = "lset" ->
                 Reply(IF pos \in 1..Len(es) THEN put(ReplaceAt(es, pos, c.val)) ELSE s, TRUE, FALSE)

ListCommands ==
  {"lpush", "rpush", "lrangeall", "llen", "lrem", "linsert_after", "linsert_before", "lset"}

(* Bitmap commands (lines 251-278) work on strings: SETBIT creates the    *)
(* key and keeps a TTL; WRONGTYPE on a hash or list; BITCOUNT ... BIT is   *)
(* a syntax error before Redis 7.                                          *)
ApplyBits(cmd, k, s) ==
  LET v == s[k] IN
  IF v.kind \in {"hash", "list"} \/ (cmd = "bitcount_range_by_bit" /\ ~Redis7)
  THEN Reply(s, TRUE, FALSE)
  ELSE Reply(IF cmd = "setbit" /\ v = Nil THEN [s EXCEPT ![k] = Str(FALSE)] ELSE s, FALSE, FALSE)

BitCommands == {"setbit", "getbit", "bitcount", "bitcount_range_by_byte", "bitcount_range_by_bit"}

(* FLUSHDB and FLUSHALL (one database) empty the key space. *)
Flush == [x \in Keys |-> Nil]

(* String and key commands: SET and GETSET clear a TTL, SET EX sets one,  *)
(* INCRBY keeps it, EXPIRE and EXPIREAT put one on an existing key; GET,  *)
(* GETSET and INCRBY fail with WRONGTYPE on a hash or list.                *)
Apply(cmd, c, s) ==
  LET k == c.key
      f == c.field
      v == s[k]
      ok(s2) == Reply(s2, FALSE, FALSE)
      onString(s2) == IF v.kind \in {"hash", "list"} THEN Reply(s, TRUE, FALSE) ELSE ok(s2)
  IN CASE cmd = "set"     -> ok([s EXCEPT ![k] = Str(FALSE)])
       [] cmd = "set_ex"  -> ok([s EXCEPT ![k] = Str(TRUE)])
       [] cmd = "set_nx"  -> Reply(IF v = Nil THEN [s EXCEPT ![k] = Str(FALSE)] ELSE s, FALSE, v = Nil)
       [] cmd = "get"     -> onString(s)
       [] cmd = "getset"  -> onString([s EXCEPT ![k] = Str(FALSE)])
       [] cmd = "incr"    -> onString([s EXCEPT ![k] = Str(v # Nil /\ v.ttl)])
       [] cmd = "del"     -> ok([s EXCEPT ![k] = Nil])
       [] cmd = "exists"  -> Reply(s, FALSE, v # Nil)
       [] cmd \in {"expire", "expire_at"} -> ok(IF v = Nil THEN s ELSE [s EXCEPT ![k].ttl = TRUE])
       [] cmd = "ttl"     -> ok(s)
       [] cmd \in {"flushdb", "flushall"} -> ok(Flush)
       [] cmd \in HashCommands -> ApplyHash(cmd, k, f, s)
       [] cmd \in ListCommands -> ApplyList(cmd, c, s)
       [] cmd \in BitCommands  -> ApplyBits(cmd, k, s)

-----------------------------------------------------------------------------
Init ==
  /\ store \in InitStores
  /\ up = TRUE
  /\ faults = 0
  /\ free = MaxSize
  /\ pc = [t \in Tasks |-> "idle"]
  /\ call = [t \in Tasks |-> NoCall]
  /\ stage = [t \in Tasks |-> "run"]
  /\ held = [t \in Tasks |-> 0]
  /\ ret = [t \in Tasks |-> "none"]
  /\ calls = [t \in Tasks |-> 0]

(* A task calls one of the client's methods. *)
Call(t) ==
  /\ pc[t] = "idle"
  /\ calls[t] < MaxCalls
  /\ NestWhileHolding \/ held[t] = 0
  /\ \E c \in Calls :
       /\ call' = [call EXCEPT ![t] = c]
       /\ stage' = [stage EXCEPT ![t] = IF c.name \in ConfirmOps THEN "del" ELSE "run"]
  /\ pc' = [pc EXCEPT ![t] = "get_conn"]
  /\ calls' = [calls EXCEPT ![t] = @ + 1]
  /\ ret' = [ret EXCEPT ![t] = "none"]
  /\ UNCHANGED <<store, up, faults, free, held>>

(* Mutant: the confirm loop's `_ => {}` arm also swallows Err. *)
AfterReplyIgnoreErr(t, r) ==
  IF r.err /\ stage[t] # "check" THEN [pc |-> "idle", stage |-> stage[t], ret |-> "err"]
  ELSE CASE stage[t] = "del"                     -> [pc |-> "get_conn", stage |-> "check", ret |-> "none"]
         [] stage[t] = "check" /\ ~r.err /\ ~r.bool -> [pc |-> "idle", stage |-> "check", ret |-> "ok"]
         [] stage[t] = "check" /\ (r.err \/ r.bool) -> [pc |-> "get_conn", stage |-> "check", ret |-> "none"]
         [] stage[t] = "run"                     -> [pc |-> "idle", stage |-> "run", ret |-> "ok"]

AfterReply(t, r) ==
  IF r.err THEN [pc |-> "idle", stage |-> stage[t], ret |-> "err"]
  ELSE CASE stage[t] = "del"               -> [pc |-> "get_conn", stage |-> "check", ret |-> "none"]
         [] stage[t] = "check" /\ ~r.bool -> [pc |-> "idle", stage |-> "check", ret |-> "ok"]
         [] stage[t] = "check" /\ r.bool  -> [pc |-> "get_conn", stage |-> "check", ret |-> "none"]
         [] stage[t] = "run"               -> [pc |-> "idle", stage |-> "run", ret |-> "ok"]

(* get_connection(): pool.get() waits while no connection is free and     *)
(* fails with IoError "Get connection error" when none can be opened.     *)
(* For cmd() the connection goes to the caller.                            *)
GetConnection(t) ==
  /\ pc[t] = "get_conn"
  /\ \/ /\ up
        /\ free > 0
        /\ free' = free - 1
        /\ UNCHANGED stage
        /\ IF call[t].name = "cmd"
           THEN /\ held' = [held EXCEPT ![t] = @ + 1]
                /\ pc' = [pc EXCEPT ![t] = "idle"]
                /\ ret' = [ret EXCEPT ![t] = "ok"]
                /\ call' = [call EXCEPT ![t] = NoCall]
           ELSE /\ pc' = [pc EXCEPT ![t] = "exec"]
                /\ UNCHANGED <<held, ret, call>>
     \/ /\ ~up
        /\ LET next == AfterReply(t, Reply(store, TRUE, FALSE))
           IN /\ pc' = [pc EXCEPT ![t] = next.pc]
              /\ stage' = [stage EXCEPT ![t] = next.stage]
              /\ ret' = [ret EXCEPT ![t] = next.ret]
              /\ call' = [call EXCEPT ![t] = IF next.pc = "idle" THEN NoCall ELSE @]
        /\ UNCHANGED <<free, held>>
  /\ UNCHANGED <<store, up, faults, calls>>

(* The command is sent on the connection and answered (or fails because   *)
(* the server went away); the connection is dropped back into the pool.   *)
Exec(t) ==
  /\ pc[t] = "exec"
  /\ LET r    == IF up THEN Apply(Command(call[t], stage[t]), call[t], store)
                 ELSE Reply(store, TRUE, FALSE)
         next == AfterReply(t, r)
     IN /\ store' = r.store
        /\ pc' = [pc EXCEPT ![t] = next.pc]
        /\ stage' = [stage EXCEPT ![t] = next.stage]
        /\ ret' = [ret EXCEPT ![t] = next.ret]
        /\ call' = [call EXCEPT ![t] = IF next.pc = "idle" THEN NoCall ELSE @]
  /\ free' = free + 1
  /\ UNCHANGED <<up, faults, held, calls>>

(* Mutant: a connection dropped back into the pool twice. *)
DropConnUnguarded(t) ==
  /\ pc[t] = "idle"
  /\ held' = [held EXCEPT ![t] = IF @ > 0 THEN @ - 1 ELSE 0]
  /\ free' = free + 1
  /\ UNCHANGED <<store, up, faults, pc, call, stage, ret, calls>>

(* The caller's scope ends and a connection from cmd() is dropped. *)
DropConn(t) ==
  /\ pc[t] = "idle"
  /\ held[t] > 0
  /\ held' = [held EXCEPT ![t] = @ - 1]
  /\ free' = free + 1
  /\ UNCHANGED <<store, up, faults, pc, call, stage, ret, calls>>

(* Redis removes a key whose TTL has run out. *)
Expire(k) ==
  /\ store[k] # Nil
  /\ store[k].ttl
  /\ store' = [store EXCEPT ![k] = Nil]
  /\ UNCHANGED <<up, faults, free, pc, call, stage, held, ret, calls>>

ServerDown ==
  /\ up
  /\ faults < MaxFaults
  /\ up' = FALSE
  /\ faults' = faults + 1
  /\ UNCHANGED <<store, free, pc, call, stage, held, ret, calls>>

ServerUp ==
  /\ ~up
  /\ up' = TRUE
  /\ UNCHANGED <<store, faults, free, pc, call, stage, held, ret, calls>>

Next ==
  \/ \E t \in Tasks : Call(t) \/ GetConnection(t) \/ Exec(t) \/ DropConn(t)
  \/ \E k \in Keys : Expire(k)
  \/ ServerDown
  \/ ServerUp

(* A command in flight is answered; the pool's semaphore is FIFO, so a    *)
(* waiter gets a connection that is free again and again; a scope ends;   *)
(* Redis expires keys.  Callers and the server's outages are not fair.    *)
Fairness ==
  /\ \A t \in Tasks : WF_vars(Exec(t)) /\ SF_vars(GetConnection(t)) /\ WF_vars(DropConn(t))
  /\ \A k \in Keys : WF_vars(Expire(k))

Spec == Init /\ [][Next]_vars /\ Fairness

-----------------------------------------------------------------------------
TypeOK ==
  /\ DOMAIN store = Keys /\ \A k \in Keys : IsRedisValue(store[k])
  /\ up \in BOOLEAN
  /\ faults \in 0..MaxFaults
  /\ free \in 0..MaxSize
  /\ pc \in [Tasks -> {"idle", "get_conn", "exec"}]
  /\ call \in [Tasks -> Calls \cup {NoCall}]
  /\ stage \in [Tasks -> {"run", "del", "check"}]
  /\ held \in [Tasks -> 0..MaxSize]
  /\ ret \in [Tasks -> {"none", "ok", "err"}]
  /\ calls \in [Tasks -> 0..MaxCalls]

(* Every call of the client returns: a command is answered, del_confirm   *)
(* and hdel_confirm leave their EXISTS/HEXISTS loop, and no task waits    *)
(* for a pooled connection forever.                                        *)
CallReturns == \A t \in Tasks : pc[t] # "idle" ~> pc[t] = "idle"

(* A step in which a method returns Err does not change Redis: an error   *)
(* reply means the command was not carried out, so the caller can retry   *)
(* it or report that nothing was done.                                     *)
ErrorLeavesStoreUnchanged ==
  [][\A t \in Tasks : pc[t] # "idle" /\ pc'[t] = "idle" /\ ret'[t] = "err" => store' = store]_vars

(* The key (del_confirm) or the hash field (hdel_confirm) of call c is    *)
(* absent from the key space s.                                            *)
Gone(c, s) ==
  IF c.name = "del_confirm" THEN s[c.key] = Nil
  ELSE s[c.key].kind # "hash" \/ c.field \notin s[c.key].fields

=============================================================================
