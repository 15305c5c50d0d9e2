----------------------------- MODULE ConfigReload -----------------------------
(***************************************************************************)
(* The configuration package of src/config/config.go: the global `cfg`    *)
(* behind cfgMutex, the `registry` of externally owned config structs      *)
(* behind regMutex, InitConfig, viper's OnConfigChange callback (run on    *)
(* the watcher goroutine, one event at a time) and the readers.            *)
(*                                                                         *)
(* Data is abstracted to versions: the file holds a version for the base   *)
(* Config and one per registered section, or Bad when that part does not  *)
(* decode; a section may also be Absent from the file.  A registered struct is a record of Fields, each holding the    *)
(* version it was last decoded from (Zero before the first decode).        *)
(* DynamicConfigs is NilMap or the set of keys it holds; every value it    *)
(* holds is the registered pointer, so only the keys matter.               *)
(*                                                                         *)
(* Every critical section of cfgMutex is a single step, which is what the  *)
(* RWMutex gives; regMutex is held across steps and is modelled by        *)
(* regHolder.                                                              *)
(***************************************************************************)
EXTENDS Naturals, Sequences, FiniteSets

CONSTANTS
    Keys,       \* keys external packages register
    FieldSeq,   \* the fields of a registered struct, in decoding order
    Readers,    \* goroutines that read the configuration
    MaxEdits,   \* how often the config file is rewritten
    Bad, Absent, Zero, NilMap, NoKey   \* model values

Fields == {FieldSeq[i] : i \in 1..Len(FieldSeq)}
Versions == 1..MaxEdits+1
Sections == Versions \cup {Bad, Absent}
Content == [base : Versions \cup {Bad}, sec : [Keys -> Sections]]

VARIABLES
    file,       \* what the config file holds now
    edits,      \* how often it has been rewritten
    pending,    \* fsnotify events not yet handled by the watcher
    mpc,        \* main: "init" (before InitConfig) | "loaded" (files read,
                \* registry decoded, WatchConfig not yet called) |
                \* "running" (InitConfig returned) | "fatal"
    cfgBase,    \* the base fields of *cfg: a version, or Zero
    dyn,        \* cfg.DynamicConfigs: NilMap or the set of keys it holds
    registry,   \* the keys of `registry`
    structs,    \* each registered struct's fields
    regHolder,  \* "none" | "watcher" | "registrar": who holds regMutex
    wpc,        \* the watcher goroutine's place in the callback
    vconf,      \* the content viper read for the event being handled
    todo,       \* keys of the registry loop not yet visited
    wkey,       \* the key being decoded, or NoKey
    wi,         \* the index of the next field to decode
    crashed,    \* a panic ended the process
    rpc,        \* reader: "idle" | "read" | "done"
    rkey,       \* the key a reader looked up, or NoKey
    rseen,      \* the field values a reader has read so far
    rbase,      \* the base config a reader's last getter call returned
    unseen      \* history: the file was rewritten after InitConfig read it
                \* and before WatchConfig, and not since

vars == <<file, edits, pending, mpc, cfgBase, dyn, registry, structs, regHolder,
          wpc, vconf, todo, wkey, wi, crashed, rpc, rkey, rseen, rbase, unseen>>

Alive == crashed = FALSE /\ mpc # "fatal"

Init ==
    /\ file \in Content
    /\ edits = 0
    /\ pending = 0
    /\ mpc = "init"
    /\ cfgBase = Zero
    /\ dyn = NilMap
    /\ registry = {}
    /\ structs = [k \in Keys |-> [f \in Fields |-> Zero]]
    /\ regHolder = "none"
    /\ wpc = "idle"
    /\ vconf = file
    /\ todo = {}
    /\ wkey = NoKey
    /\ wi = 1
    /\ crashed = FALSE
    /\ rpc = [r \in Readers |-> "idle"]
    /\ rkey = [r \in Readers |-> NoKey]
    /\ rseen = [r \in Readers |-> <<>>]
    /\ rbase = [r \in Readers |-> Zero]
    /\ unseen = FALSE

(* The file is rewritten.  fsnotify reports it only once WatchConfig has  *)
(* run; a rewrite after InitConfig read the files and before WatchConfig   *)
(* is never reported.                                                      *)
Edit ==
    /\ Alive
    /\ edits < MaxEdits
    /\ edits' = edits + 1
    /\ \E c \in [base : {edits + 2, Bad}, sec : [Keys -> {edits + 2, Bad, Absent}]] :
          file' = c
    /\ pending' = IF mpc = "running" THEN pending + 1 ELSE pending
    /\ unseen' = (mpc = "loaded")
    /\ UNCHANGED <<rbase, mpc, cfgBase, dyn, registry, structs, regHolder, wpc, vconf,
                   todo, wkey, wi, crashed, rpc, rkey, rseen>>

(* RegisterConfig(key, &T{}): registry[key] = configStruct under regMutex. *)
RegisterConfig(k) ==
    /\ Alive
    /\ regHolder = "none"
    /\ k \notin registry
    /\ registry' = registry \cup {k}
    /\ UNCHANGED <<rbase, file, edits, pending, mpc, cfgBase, dyn, structs, regHolder,
                   wpc, vconf, todo, wkey, wi, crashed, rpc, rkey, rseen, unseen>>

(* The registered keys for which UnmarshalKey returns no error: a section *)
(* that decodes, and one missing from the file, for which mapstructure     *)
(* decodes nil by writing nothing.                                         *)
DecodedKeys(c, reg) == {k \in reg : c.sec[k] # Bad}

(* What UnmarshalKey leaves in a registered struct: the section's fields, *)
(* or the struct untouched when the section is Bad or Absent.              *)
Decoded(c, k, old) == IF c.sec[k] \in Versions THEN [f \in Fields |-> c.sec[k]] ELSE old

(* InitConfig up to regMutex.Unlock(): cfg = &Config{} with an empty       *)
(* DynamicConfigs map, viper reads and merges the files, Unmarshal         *)
(* (logger.Fatal on error), then, under regMutex, UnmarshalKey for every   *)
(* registered key, publishing each that returns no error.  No reader and   *)
(* no callback runs yet, and RegisterConfig waits for regMutex, so this is *)
(* one step.                                                               *)
InitLoad ==
    /\ mpc = "init"
    /\ regHolder = "none"
    /\ IF file.base = Bad
       THEN /\ mpc' = "fatal"
            /\ UNCHANGED <<cfgBase, dyn, structs, vconf>>
       ELSE /\ mpc' = "loaded"
            /\ cfgBase' = file.base
            /\ structs' = [k \in Keys |->
                             IF k \in registry THEN Decoded(file, k, structs[k])
                                               ELSE structs[k]]
            /\ dyn' = DecodedKeys(file, registry)
            /\ vconf' = file
    /\ UNCHANGED <<rbase, file, edits, pending, registry, regHolder, wpc, todo, wkey, wi,
                   crashed, rpc, rkey, rseen, unseen>>

(* v.OnConfigChange(...) and v.WatchConfig(): from here on fsnotify        *)
(* reports rewrites of the file; InitConfig returns cfg and main goes on.  *)
WatchConfig ==
    /\ mpc = "loaded"
    /\ mpc' = "running"
    /\ UNCHANGED <<rbase, file, edits, pending, cfgBase, dyn, registry, structs,
                   regHolder, wpc, vconf, todo, wkey, wi, crashed, rpc, rkey, rseen, unseen>>

HandleEvent ==
    /\ Alive
    /\ mpc = "running"
    /\ wpc = "idle"
    /\ pending > 0
    /\ pending' = pending - 1
    /\ vconf' = file
    /\ wpc' = IF file.base = Bad THEN "idle" ELSE "swap"
    /\ UNCHANGED <<rbase, file, edits, mpc, cfgBase, dyn, registry, structs, regHolder,
                   todo, wkey, wi, crashed, rpc, rkey, rseen, unseen>>

(* cfgMutex.Lock(); *cfg = *newCfg; cfgMutex.Unlock().  newCfg was made by *)
(* &Config{} and Unmarshal, so its DynamicConfigs map is nil.              *)
SwapConfig ==
    /\ Alive
    /\ wpc = "swap"
    /\ cfgBase' = vconf.base
    /\ dyn' = NilMap
    /\ wpc' = "lockreg"
    /\ UNCHANGED <<rbase, file, edits, pending, mpc, registry, structs, regHolder,
                   vconf, todo, wkey, wi, crashed, rpc, rkey, rseen, unseen>>

(* regMutex.Lock() and the start of `for key, cfgStruct := range registry`.*)
LockRegistry ==
    /\ Alive
    /\ wpc = "lockreg"
    /\ regHolder = "none"
    /\ regHolder' = "watcher"
    /\ todo' = registry
    /\ wpc' = "loop"
    /\ UNCHANGED <<rbase, file, edits, pending, mpc, cfgBase, dyn, registry, structs,
                   vconf, wkey, wi, crashed, rpc, rkey, rseen, unseen>>

(* Mutant: the error of UnmarshalKey is ignored.                            *)
NextKeyIgnoreError(k) ==
    /\ Alive
    /\ wpc = "loop"
    /\ k \in todo
    /\ todo' = todo \ {k}
    /\ wkey' = k
    /\ wi' = 1
    /\ wpc' = "decode"
    /\ UNCHANGED <<rbase, file, edits, pending, mpc, cfgBase, dyn, registry, structs,
                   regHolder, vconf, crashed, rpc, rkey, rseen, unseen>>

(* One iteration, in map order: UnmarshalKey(key, cfgStruct) either fails  *)
(* (the error is logged and the key skipped), decodes into the struct, or, *)
(* for a section missing from the file, writes nothing and returns nil, so *)
(* the untouched struct is published.                                      *)
NextKey(k) ==
    /\ Alive
    /\ wpc = "loop"
    /\ k \in todo
    /\ todo' = todo \ {k}
    /\ CASE vconf.sec[k] = Bad    -> UNCHANGED <<rbase, wkey, wi, wpc>>
          [] vconf.sec[k] = Absent -> wkey' = k /\ wpc' = "publish" /\ UNCHANGED <<rbase, wi>>
          [] OTHER                 -> wkey' = k /\ wi' = 1 /\ wpc' = "decode" /\ UNCHANGED rbase
    /\ UNCHANGED <<file, edits, pending, mpc, cfgBase, dyn, registry, structs,
                   regHolder, vconf, crashed, rpc, rkey, rseen, unseen>>

(* mapstructure writes one field of the registered struct in place,        *)
(* without cfgMutex.                                                        *)
DecodeField ==
    /\ Alive
    /\ wpc = "decode"
    /\ structs' = [structs EXCEPT ![wkey][FieldSeq[wi]] = vconf.sec[wkey]]
    /\ wi' = wi + 1
    /\ wpc' = IF wi = Len(FieldSeq) THEN "publish" ELSE "decode"
    /\ UNCHANGED <<rbase, file, edits, pending, mpc, cfgBase, dyn, registry, regHolder,
                   vconf, todo, wkey, crashed, rpc, rkey, rseen, unseen>>

(* cfgMutex.Lock(); cfg.DynamicConfigs[key] = cfgStruct; Unlock().  An     *)
(* assignment to a nil map panics, and the panic ends the process.         *)
Publish ==
    /\ Alive
    /\ wpc = "publish"
    /\ IF dyn = NilMap
       THEN crashed' = TRUE /\ UNCHANGED dyn
       ELSE dyn' = dyn \cup {wkey} /\ UNCHANGED crashed
    /\ wkey' = NoKey
    /\ wpc' = "loop"
    /\ UNCHANGED <<rbase, file, edits, pending, mpc, cfgBase, registry, structs,
                   regHolder, vconf, todo, wi, rpc, rkey, rseen, unseen>>

UnlockRegistry ==
    /\ Alive
    /\ wpc = "loop"
    /\ todo = {}
    /\ regHolder' = "none"
    /\ wpc' = "idle"
    /\ UNCHANGED <<rbase, file, edits, pending, mpc, cfgBase, dyn, registry, structs,
                   vconf, todo, wkey, wi, crashed, rpc, rkey, rseen, unseen>>

(* GetDynamicConfigTyped[T](key): under RLock, the registered pointer if   *)
(* DynamicConfigs holds the key (a nil map reads as empty).                *)
GetDynamicConfig(r, k) ==
    /\ Alive
    /\ mpc = "running"
    /\ rpc[r] \in {"idle", "done"}
    /\ rseen' = [rseen EXCEPT ![r] = <<>>]
    /\ IF dyn # NilMap /\ k \in dyn
       THEN /\ rpc' = [rpc EXCEPT ![r] = "read"]
            /\ rkey' = [rkey EXCEPT ![r] = k]
       ELSE /\ rpc' = [rpc EXCEPT ![r] = "idle"]
            /\ rkey' = [rkey EXCEPT ![r] = NoKey]
    /\ UNCHANGED <<rbase, file, edits, pending, mpc, cfgBase, dyn, registry, structs,
                   regHolder, wpc, vconf, todo, wkey, wi, crashed, unseen>>

(* The caller reads the next field through the pointer it was given.       *)
ReadField(r) ==
    /\ Alive
    /\ rpc[r] = "read"
    /\ rseen' = [rseen EXCEPT ![r] = Append(@, structs[rkey[r]][FieldSeq[Len(@) + 1]])]
    /\ rpc' = [rpc EXCEPT ![r] = IF Len(rseen[r]) + 1 = Len(FieldSeq) THEN "done" ELSE "read"]
    /\ UNCHANGED <<rbase, file, edits, pending, mpc, cfgBase, dyn, registry, structs,
                   regHolder, wpc, vconf, todo, wkey, wi, crashed, rkey, unseen>>

(* GetDBConnectionString, GetRedisOptions, GetCockroachDBConfig and       *)
(* GetCassandraConfig: under cfgMutex.RLock, format fields of the base     *)
(* config (a region missing from the file is an error, not a state).       *)
GetConfig(r) ==
    /\ Alive
    /\ mpc = "running"
    /\ rbase' = [rbase EXCEPT ![r] = cfgBase]
    /\ UNCHANGED <<file, edits, pending, mpc, cfgBase, dyn, registry, structs,
                   regHolder, wpc, vconf, todo, wkey, wi, crashed, rpc, rkey, rseen, unseen>>

(* The process has ended (panic or logger.Fatal), or everything is done.   *)
Ended ==
    /\ \/ ~Alive
       \/ edits = MaxEdits /\ pending = 0 /\ wpc = "idle" /\ mpc = "running"
    /\ UNCHANGED vars

Next ==
    \/ Edit \/ InitLoad \/ WatchConfig
    \/ \E k \in Keys : RegisterConfig(k) \/ NextKey(k)
    \/ HandleEvent \/ SwapConfig \/ LockRegistry \/ DecodeField \/ Publish
    \/ UnlockRegistry
    \/ \E r \in Readers : ReadField(r) \/ GetConfig(r) \/ \E k \in Keys : GetDynamicConfig(r, k)
    \/ Ended

(* main calls InitConfig; fsnotify delivers every change to the watcher  *)
(* goroutine, which the runtime keeps running through the callback.  The   *)
(* file's rewrites and the readers are the environment: no fairness.       *)
Fairness ==
    /\ WF_vars(InitLoad) /\ WF_vars(WatchConfig)
    /\ WF_vars(HandleEvent) /\ WF_vars(SwapConfig) /\ WF_vars(LockRegistry)
    /\ WF_vars(\E k \in Keys : NextKey(k)) /\ WF_vars(DecodeField)
    /\ WF_vars(Publish) /\ WF_vars(UnlockRegistry)

Spec == Init /\ [][Next]_vars /\ Fairness

-----------------------------------------------------------------------------
TypeOK ==
    /\ file \in Content /\ vconf \in Content
    /\ edits \in 0..MaxEdits /\ pending \in 0..MaxEdits
    /\ mpc \in {"init", "loaded", "running", "fatal"}
    /\ cfgBase \in Versions \cup {Zero}
    /\ dyn \in SUBSET Keys \cup {NilMap}
    /\ registry \subseteq Keys
    /\ structs \in [Keys -> [Fields -> Versions \cup {Zero}]]
    /\ regHolder \in {"none", "watcher"}
    /\ wpc \in {"idle", "swap", "lockreg", "loop", "decode", "publish"}
    /\ todo \subseteq Keys /\ wkey \in Keys \cup {NoKey} /\ wi \in 1..Len(FieldSeq)+1
    /\ crashed \in BOOLEAN
    /\ rpc \in [Readers -> {"idle", "read", "done"}]
    /\ rkey \in [Readers -> Keys \cup {NoKey}]
    /\ rbase \in [Readers -> Versions \cup {Zero}]
    /\ unseen \in BOOLEAN

Quiescent == Alive /\ mpc = "running" /\ pending = 0 /\ wpc = "idle"

ReloadNeverPanics ==
    crashed = FALSE
=============================================================================
