------------------------------- MODULE RedisKit -------------------------------
(***************************************************************************)
(* The RedisKit client of src/rediskit: RedisKitClient and RedisCache over *)
(* one redis server.  Every client has a go-redis/cache Cache whose local  *)
(* TinyLFU cache (NewRedisCache) keeps encoded bytes per key.              *)
(*                                                                         *)
(* The library calls are modelled as go-redis/cache v9 performs them:      *)
(*   Cache.Set    local Set of the marshalled bytes, then redis SET;       *)
(*   Cache.Get    local hit, else redis GET (redis.Nil -> ErrCacheMiss),   *)
(*                then a local Set of the bytes read, then Unmarshal;      *)
(*   Cache.Delete local Del, then redis DEL.                               *)
(* A request goroutine in Procs uses the client ClientOf[p]; its calls are *)
(* sequential, calls of different goroutines interleave.  The TinyLFU     *)
(* cache may drop an entry at any moment (size or TTL).  Redis TTLs are    *)
(* taken longer than the behaviours checked, so redis never expires a key. *)
(***************************************************************************)
EXTENDS Naturals

CONSTANTS
    Clients,   \* RedisKitClient instances (each with its own local cache)
    Procs,     \* request goroutines
    ClientOf,  \* ClientOf[p]: the client goroutine p calls
    Keys,
    Vals,      \* the values callers store
    Ops,       \* the calls goroutines make, a subset of OpNames
    MaxOps,    \* calls per goroutine
    Absent,    \* model value: no entry
    None       \* model value: no result yet / no writer yet

OpNames == {"set", "get", "delete", "cachedelete", "flush", "bulkset", "bulkget"}

ASSUME ClientOf \in [Procs -> Clients] /\ Ops \subseteq OpNames /\ MaxOps \in Nat

\* What redis and the local cache hold: the bytes of a value, written by the
\* configured Encoder ("codec") or by go-redis's own argument formatting
\* ("raw").
Bytes == [enc : {"codec", "raw"}, val : Vals]

VARIABLES
    redis,   \* redis[k]: the bytes under k, or Absent
    local,   \* local[c][k]: client c's TinyLFU entry for k, or Absent
    pc,      \* pc[p]: "idle" or the library step goroutine p is in
    arg,     \* arg[p]: the key and bytes of p's call in progress
    nops,    \* calls goroutine p has started
    lastw,   \* lastw[k]: the goroutine whose write to k reached redis last, and what it wrote
    got      \* got[p]: p's last Get: its key, result and lastw[key] when it returned

vars == <<redis, local, pc, arg, nops, lastw, got>>

Init ==
    /\ redis = [k \in Keys |-> Absent]
    /\ local = [c \in Clients |-> [k \in Keys |-> Absent]]
    /\ pc = [p \in Procs |-> "idle"]
    /\ arg = [p \in Procs |-> None]
    /\ nops = [p \in Procs |-> 0]
    /\ lastw = [k \in Keys |-> [by |-> None, val |-> Absent]]
    /\ got = [p \in Procs |-> None]

\* Goroutine p may start a call of kind op.
Start(p, op) == op \in Ops /\ pc[p] = "idle" /\ nops[p] < MaxOps

\* Encoder.Unmarshal of bytes: the Encoder reads back what it wrote; the
\* bytes go-redis formats from a bare value are not valid JSON/msgpack.
Decode(b) == IF b.enc = "codec" THEN b.val ELSE "DecodeError"

\* A write of bytes b (or Absent) to k by p has reached redis.
Wrote(p, b) == [by |-> p, val |-> IF b = Absent THEN Absent ELSE b.val]

(* RedisKitClient.Set / RedisCache.Set -> Cache.Set: marshal, local Set.   *)
SetLocal(p) ==
    /\ \E k \in Keys, v \in Vals :
         /\ Start(p, "set")
         /\ local' = [local EXCEPT ![ClientOf[p]][k] = [enc |-> "codec", val |-> v]]
         /\ arg' = [arg EXCEPT ![p] = [key |-> k, b |-> [enc |-> "codec", val |-> v]]]
    /\ pc' = [pc EXCEPT ![p] = "set_redis"]
    /\ nops' = [nops EXCEPT ![p] = @ + 1]
    /\ UNCHANGED <<redis, lastw, got>>

(* ... then redis SET.                                                     *)
SetRedis(p) ==
    /\ pc[p] = "set_redis"
    /\ redis' = [redis EXCEPT ![arg[p].key] = arg[p].b]
    /\ lastw' = [lastw EXCEPT ![arg[p].key] = Wrote(p, arg[p].b)]
    /\ pc' = [pc EXCEPT ![p] = "idle"]
    /\ UNCHANGED <<local, arg, nops, got>>

\* The end of a Get: HandleError(result) recorded with the write it saw.
Return(p, k, res) ==
    /\ got' = [got EXCEPT ![p] = [key |-> k, res |-> res, w |-> lastw[k]]]
    /\ pc' = [pc EXCEPT ![p] = "idle"]

(* RedisKitClient.Get / RedisCache.Get -> Cache.Get: a local hit returns.  *)
GetLocal(p) ==
    /\ \E k \in Keys :
         /\ Start(p, "get")
         /\ nops' = [nops EXCEPT ![p] = @ + 1]
         /\ IF local[ClientOf[p]][k] # Absent
            THEN /\ Return(p, k, Decode(local[ClientOf[p]][k]))
                 /\ UNCHANGED arg
            ELSE /\ arg' = [arg EXCEPT ![p] = [key |-> k, b |-> Absent]]
                 /\ pc' = [pc EXCEPT ![p] = "get_redis"]
                 /\ UNCHANGED got
    /\ UNCHANGED <<redis, local, lastw>>

(* HandleError: redis.Nil becomes ErrNotFound, any other error passes.     *)
HandleError(err) == IF err = "redis.Nil" THEN "ErrNotFound" ELSE err

(* ... else redis GET; Cache.Get turns redis.Nil into cache.ErrCacheMiss   *)
(* before HandleError sees it.                                             *)
GetRedis(p) ==
    /\ pc[p] = "get_redis"
    /\ IF redis[arg[p].key] = Absent
       THEN /\ Return(p, arg[p].key, HandleError("ErrCacheMiss"))
            /\ UNCHANGED arg
       ELSE /\ arg' = [arg EXCEPT ![p].b = redis[arg[p].key]]
            /\ pc' = [pc EXCEPT ![p] = "get_fill"]
            /\ UNCHANGED got
    /\ UNCHANGED <<redis, local, nops, lastw>>

(* ... then the bytes read go into the local cache and are unmarshalled.   *)
GetFill(p) ==
    /\ pc[p] = "get_fill"
    /\ local' = [local EXCEPT ![ClientOf[p]][arg[p].key] = arg[p].b]
    /\ Return(p, arg[p].key, Decode(arg[p].b))
    /\ UNCHANGED <<redis, arg, nops, lastw>>

(* RedisCache.Delete -> Cache.Delete: local Del ...                        *)
CacheDeleteLocal(p) ==
    /\ \E k \in Keys :
         /\ Start(p, "cachedelete")
         /\ local' = [local EXCEPT ![ClientOf[p]][k] = Absent]
         /\ arg' = [arg EXCEPT ![p] = [key |-> k, b |-> Absent]]
    /\ pc' = [pc EXCEPT ![p] = "del_redis"]
    /\ nops' = [nops EXCEPT ![p] = @ + 1]
    /\ UNCHANGED <<redis, lastw, got>>

(* ... then redis DEL.                                                     *)
CacheDeleteRedis(p) ==
    /\ pc[p] = "del_redis"
    /\ redis' = [redis EXCEPT ![arg[p].key] = Absent]
    /\ lastw' = [lastw EXCEPT ![arg[p].key] = Wrote(p, Absent)]
    /\ pc' = [pc EXCEPT ![p] = "idle"]
    /\ UNCHANGED <<local, arg, nops, got>>

(* RedisKitClient.Delete: rk.client.Del, straight to redis.                *)
Delete(p) ==
    /\ \E k \in Keys :
         /\ Start(p, "delete")
         /\ redis' = [redis EXCEPT ![k] = Absent]
         /\ lastw' = [lastw EXCEPT ![k] = Wrote(p, Absent)]
    /\ nops' = [nops EXCEPT ![p] = @ + 1]
    /\ UNCHANGED <<local, pc, arg, got>>

(* RedisKitClient.FlushDB: FLUSHDB on the server.                          *)
FlushDB(p) ==
    /\ Start(p, "flush")
    /\ redis' = [k \in Keys |-> Absent]
    /\ lastw' = [k \in Keys |-> Wrote(p, Absent)]
    /\ nops' = [nops EXCEPT ![p] = @ + 1]
    /\ UNCHANGED <<local, pc, arg, got>>

(* RedisKitClient.BulkSet: one pipelined SET per item, of the bare value.  *)
(* The SETs touch distinct keys, so one step stands for the pipeline.      *)
BulkSet(p) ==
    /\ Start(p, "bulkset")
    /\ \E S \in SUBSET Keys \ {{}} : \E items \in [S -> Vals] :
         /\ redis' = [k \in Keys |-> IF k \in S THEN [enc |-> "raw", val |-> items[k]]
                                               ELSE redis[k]]
         /\ lastw' = [k \in Keys |-> IF k \in S THEN Wrote(p, redis'[k]) ELSE lastw[k]]
    /\ nops' = [nops EXCEPT ![p] = @ + 1]
    /\ UNCHANGED <<local, pc, arg, got>>

(* RedisKitClient.BulkGet: one pipelined GET per key, straight to redis.  *)
(* A pipeline is not a transaction: other clients' commands run between   *)
(* its GETs, so each GET is a step of its own, in any order of the keys.  *)
BulkGetStart(p) ==
    /\ Start(p, "bulkget")
    /\ \E S \in SUBSET Keys \ {{}} : arg' = [arg EXCEPT ![p] = [keys |-> S]]
    /\ pc' = [pc EXCEPT ![p] = "bulk_get"]
    /\ nops' = [nops EXCEPT ![p] = @ + 1]
    /\ UNCHANGED <<redis, local, lastw, got>>

(* One GET and its turn of the loop over cmds: redis.Nil skips the key;   *)
(* otherwise dest[key] is the string redis holds, the bytes as written,   *)
(* never passed to the Encoder.                                           *)
BulkGetKey(p) ==
    /\ pc[p] = "bulk_get"
    /\ \E k \in arg[p].keys :
         /\ arg' = [arg EXCEPT ![p].keys = @ \ {k}]
         /\ IF redis[k] = Absent
            THEN UNCHANGED got
            ELSE got' = [got EXCEPT ![p] = [key |-> k, res |-> redis[k], w |-> lastw[k]]]
         /\ pc' = [pc EXCEPT ![p] = IF arg[p].keys = {k} THEN "idle" ELSE "bulk_get"]
    /\ UNCHANGED <<redis, local, nops, lastw>>

(* The TinyLFU cache drops an entry (admission, size or its TTL).          *)
Evict ==
    /\ \E c \in Clients, k \in Keys :
         /\ local[c][k] # Absent
         /\ local' = [local EXCEPT ![c][k] = Absent]
    /\ UNCHANGED <<redis, pc, arg, nops, lastw, got>>

(* Every goroutine has made its calls.                                     *)
Ended ==
    /\ \A p \in Procs : pc[p] = "idle" /\ nops[p] = MaxOps
    /\ UNCHANGED vars

Next ==
    \/ \E p \in Procs :
         \/ SetLocal(p) \/ SetRedis(p)
         \/ GetLocal(p) \/ GetRedis(p) \/ GetFill(p)
         \/ CacheDeleteLocal(p) \/ CacheDeleteRedis(p)
         \/ Delete(p) \/ FlushDB(p) \/ BulkSet(p)
         \/ BulkGetStart(p) \/ BulkGetKey(p)
    \/ Evict
    \/ Ended

Spec == Init /\ [][Next]_vars

-----------------------------------------------------------------------------
TypeOK ==
    /\ redis \in [Keys -> Bytes \cup {Absent}]
    /\ local \in [Clients -> [Keys -> Bytes \cup {Absent}]]
    /\ pc \in [Procs -> {"idle", "set_redis", "get_redis", "get_fill", "del_redis", "bulk_get"}]
    /\ nops \in [Procs -> 0..MaxOps]
    /\ lastw \in [Keys -> [by : Procs \cup {None}, val : Vals \cup {Absent}]]

\* What a Get must return after a write of w: the value, or ErrNotFound
\* ("key does not exist", error.go) for a deleted key.
Expected(w) == IF w = Absent THEN "ErrNotFound" ELSE w

(* Read your writes: when the last write of key k to reach redis is        *)
(* goroutine p's own, p's next Get of k returns what p wrote, or           *)
(* ErrNotFound if p deleted it.  RedisKitClient's Set, Get and Delete      *)
(* must keep the local cache, redis and the error mapping in step.         *)
ReadYourWrites ==
    \A p \in Procs :
       got[p] # None /\ got[p].w.by = p => got[p].res = Expected(got[p].w.val)
=============================================================================
