---------------------------- MODULE Registration ----------------------------
(* The function map of a class, mercury_core.c: one RPC ID that threads     *)
(* register, look up and deregister. A section under func_map_lock is one   *)
(* action; what is done with the result of a lookup is another.             *)
EXTENDS Naturals, FiniteSets

CONSTANTS
    Threads,
    Infos,        \* what malloc returns for a struct hg_core_rpc_info
    NoInfo,
    RegRaces      \* what users may do, see below

(* "register": two threads register the ID for the first time at once.      *)
(* "deregister": the ID is deregistered while it is in use; mercury_core.h  *)
(* asks the user not to.                                                    *)

VARIABLES
    func_map,     \* the info registered under the ID, or NoInfo
    info,         \* each info: its life, and whether it has a callback, data
    caller,       \* where each thread is, and the info it has looked up
    rpc_info      \* the info that the handle of each thread caches

vars == <<func_map, info, caller, rpc_info>>

Init ==
    /\ func_map = NoInfo
    /\ info = [i \in Infos |-> [life |-> "new", rpc_cb |-> FALSE, data |-> FALSE]]
    /\ caller = [t \in Threads |-> [at |-> "idle", info |-> NoInfo]]
    /\ rpc_info = [t \in Threads |-> NoInfo]

InUse(i) == \E t \in Threads : caller[t].info = i \/ rpc_info[t] = i

(* Mutant: a registered ID loses its callback when it is registered without *)
(* one.                                                                     *)
RegisterLook_Clear(t, cb) ==
    /\ caller[t].at = "idle"
    /\ IF func_map # NoInfo
       THEN /\ info' = [info EXCEPT ![func_map].rpc_cb = cb]
            /\ UNCHANGED caller
       ELSE /\ \A s \in Threads : caller[s].at \notin {"insert", "insert_cb"}
            /\ caller' = [caller EXCEPT ![t].at =
                                IF cb THEN "insert_cb" ELSE "insert"]
            /\ UNCHANGED info
    /\ UNCHANGED <<func_map, rpc_info>>

(* Mutant: an ID that is registered without a callback is inserted again. *)
RegisterLook_Again(t, cb) ==
    /\ caller[t].at = "idle"
    /\ IF func_map # NoInfo /\ info[func_map].rpc_cb
       THEN UNCHANGED <<info, caller>>
       ELSE /\ \A s \in Threads : caller[s].at \notin {"insert", "insert_cb"}
            /\ caller' = [caller EXCEPT ![t].at =
                                IF cb THEN "insert_cb" ELSE "insert"]
            /\ UNCHANGED info
    /\ UNCHANGED <<func_map, rpc_info>>

(* HG_Core_register, with or without a callback: the ID is known, ...       *)
RegisterLook(t, cb) ==
    /\ caller[t].at = "idle"
    /\ IF func_map # NoInfo
       THEN /\ info' = [info EXCEPT ![func_map].rpc_cb = @ \/ cb]
            /\ UNCHANGED caller
       ELSE /\ \/ "register" \in RegRaces
               \/ \A s \in Threads : caller[s].at \notin {"insert", "insert_cb"}
            /\ caller' = [caller EXCEPT ![t].at =
                                IF cb THEN "insert_cb" ELSE "insert"]
            /\ UNCHANGED info
    /\ UNCHANGED <<func_map, rpc_info>>

(* ... or a new info is inserted; one inserted meanwhile is freed.          *)
RegisterInsert(t) ==
    /\ caller[t].at \in {"insert", "insert_cb"}
    /\ \E i \in Infos :
        /\ info[i].life = "new"
        /\ func_map' = i
        /\ info' = [j \in Infos |->
                IF j = i THEN [life |-> "live", data |-> FALSE,
                               rpc_cb |-> caller[t].at = "insert_cb"]
                ELSE IF j = func_map THEN [info[j] EXCEPT !.life = "freed"]
                ELSE info[j]]
    /\ caller' = [caller EXCEPT ![t].at = "idle"]
    /\ UNCHANGED rpc_info

(* There is no memory for the key, the info or the entry of the table. *)
RegisterFails(t) ==
    /\ caller[t].at \in {"insert", "insert_cb"}
    /\ caller' = [caller EXCEPT ![t].at = "idle"]
    /\ UNCHANGED <<func_map, info, rpc_info>>

Deregister(t) ==
    /\ caller[t].at = "idle" /\ func_map # NoInfo
    /\ "deregister" \in RegRaces \/ ~InUse(func_map)
    /\ info' = [info EXCEPT ![func_map].life = "freed"]
    /\ func_map' = NoInfo
    /\ UNCHANGED <<caller, rpc_info>>

(* The lookup of HG_Core_register_data, HG_Core_registered_data,            *)
(* hg_core_set_rpc and hg_core_process.                                     *)
Look(t, for) ==
    /\ caller[t].at = "idle" /\ func_map # NoInfo
    /\ for \in {"set", "process"} => rpc_info[t] = NoInfo
    /\ caller' = [caller EXCEPT ![t] = [at |-> for, info |-> func_map]]
    /\ UNCHANGED <<func_map, info, rpc_info>>

Returned(t) == [caller EXCEPT ![t] = [at |-> "idle", info |-> NoInfo]]

RegisterData(t) ==
    /\ caller[t].at = "data"
    /\ info' = [info EXCEPT ![caller[t].info].data = TRUE]
    /\ caller' = Returned(t)
    /\ UNCHANGED <<func_map, rpc_info>>

RegisteredData(t) ==
    /\ caller[t].at = "read" /\ caller' = Returned(t)
    /\ UNCHANGED <<func_map, info, rpc_info>>

(* A handle of the origin caches the info. *)
SetRpc(t) ==
    /\ caller[t].at = "set"
    /\ rpc_info' = [rpc_info EXCEPT ![t] = caller[t].info]
    /\ caller' = Returned(t)
    /\ UNCHANGED <<func_map, info>>

(* A handle of the target does if there is a callback to run. *)
Process(t) ==
    /\ caller[t].at = "process"
    /\ rpc_info' = [rpc_info EXCEPT ![t] =
                        IF info[caller[t].info].rpc_cb THEN caller[t].info ELSE @]
    /\ caller' = Returned(t)
    /\ UNCHANGED <<func_map, info>>

(* The handle is destroyed, or reset to another ID. *)
Destroy(t) ==
    /\ rpc_info[t] # NoInfo /\ rpc_info' = [rpc_info EXCEPT ![t] = NoInfo]
    /\ UNCHANGED <<func_map, info, caller>>

Next == \E t \in Threads :
    \/ \E cb \in BOOLEAN : RegisterLook(t, cb)
    \/ \E for \in {"data", "read", "set", "process"} : Look(t, for)
    \/ RegisterInsert(t) \/ RegisterFails(t) \/ Deregister(t)
    \/ RegisterData(t) \/ RegisteredData(t)
    \/ SetRpc(t) \/ Process(t) \/ Destroy(t)

Spec == Init /\ [][Next]_vars

(* The info that a thread has looked up or that a handle caches is not      *)
(* freed while the ID is registered again, with or without a callback.      *)
UsedIsLive ==
    /\ \A i \in Infos : InUse(i) => info[i].life = "live"
    /\ func_map # NoInfo => info[func_map].life = "live"

(* The callback and the data of an ID stay until it is deregistered.        *)
RegistrationKept ==
    [][(func_map # NoInfo /\ func_map' # NoInfo) =>
            /\ info[func_map].rpc_cb => info'[func_map'].rpc_cb
            /\ info[func_map].data => info'[func_map'].data]_vars
=============================================================================
