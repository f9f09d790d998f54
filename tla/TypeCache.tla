----------------------------- MODULE TypeCache -----------------------------
(***************************************************************************)
(* The type cache of one interpreter (src/src/types.rs): the datetime      *)
(* group, owned through the datetime_CAPI capsule, and the numpy group,    *)
(* owned through the module sys.modules["numpy"] it was read from.         *)
(*                                                                         *)
(* A lookup runs no Python code by itself.  Only giving up the last        *)
(* reference to an object can, in a finalizer, and then the interpreter    *)
(* may do anything: change sys.modules, or make another call of dumps,     *)
(* in the same thread or in another one, which looks types up in the same  *)
(* cache.  Each call in Calls is one lookup at a time; it is suspended     *)
(* while its pc is "python".                                               *)
(***************************************************************************)
EXTENDS Naturals, FiniteSets

CONSTANTS
  Calls,        \* the calls of dumps that may be in progress together
  Modules,      \* the objects that sys.modules["numpy"] may be
  NotModules,   \* those of them that are not module objects
  Capsule,      \* _datetime.datetime_CAPI
  Datetimes,    \* the four types it gives
  Slots,        \* the number of types in the numpy group
  Absent,       \* sys.modules has no entry, or a pointer is null
  LookupFails,  \* whether a dict lookup may raise
  MaxChanges    \* bound: the changes Python makes to modules and imports

ASSUME TypeCacheAssumption ==
  /\ IsFiniteSet(Calls) /\ IsFiniteSet(Modules) /\ NotModules \subseteq Modules
  /\ Absent \notin Modules \cup {Capsule, Datetimes}
  /\ Capsule \notin Modules /\ Datetimes \notin Modules /\ Capsule # Datetimes
  /\ \A m \in Modules, i \in 1 .. Slots : <<m, i>> \notin Modules \cup {Absent, Capsule, Datetimes}
  /\ Slots \in Nat \ {0} /\ MaxChanges \in Nat
  /\ LookupFails \in BOOLEAN

Types == Modules \X (1 .. Slots)          \* type n of module m is <<m, n>>
Owned == Modules \cup Types \cup {Capsule, Datetimes}

VARIABLES
  sys,        \* sys.modules["numpy"]
  names,      \* the types each module's dict still has
  capsule,    \* whether sys.modules has a _datetime with its C API capsule
  freed,      \* the modules that no longer exist
  changes,    \* the changes Python has left
  interned,   \* whether the names are interned: not before init or after clear
  npModule,   \* np_module
  np,         \* np, a pointer per slot
  dt,         \* dt_capsule is set, and dt with it
  refs,       \* the references the cache and its calls own, per object
  call,       \* the lookup every call has in progress
  nested      \* history: a lookup has begun in a finalizer of another one

pyVars == <<sys, names, capsule, freed, changes>>
cache  == <<interned, npModule, np, dt>>
vars   == <<sys, names, capsule, freed, changes, interned, npModule, np, dt, refs,
            call, nested>>

EmptyGroup == [i \in 1 .. Slots |-> Absent]
Group(m) == [i \in 1 .. Slots |-> <<m, i>>]

(* A lookup for type ty: pc is where it stands, module the strong          *)
(* reference to the module it read from sys.modules, slot the next type    *)
(* release_all gives up, group what it answers.                            *)
PCs == {"idle", "clear", "types", "read", "drop", "python"}
Lookup == [pc : PCs, after : PCs, ty : Types \cup {Absent}, module : Modules \cup {Absent},
           slot : 1 .. Slots + 1]
Idle == [pc |-> "idle", after |-> "idle", ty |-> Absent, module |-> Absent, slot |-> 1]

-----------------------------------------------------------------------------
(* Reference counting. *)

Incref(o) == refs' = [refs EXCEPT ![o] = @ + 1]

(* What else keeps o alive: sys.modules, or the dict of a living module.   *)
HeldByPython(o) ==
  \/ o = sys \/ o \in {Capsule, Datetimes}
  \/ o \in Types /\ o[1] \notin freed /\ o[2] \in names[o[1]]

(* Py_DECREF(o) by call c, which goes on at f.  If nobody else holds o the *)
(* object is freed, and Python code may run before c goes on.              *)
Decref(c, o, f) ==
  /\ refs' = [refs EXCEPT ![o] = @ - 1]
  /\ \/ /\ call' = [call EXCEPT ![c] = f]
        /\ UNCHANGED freed                  \* someone in Python holds it
     \/ /\ refs[o] = 1 /\ ~HeldByPython(o)
        /\ freed' = IF o \in Modules THEN freed \cup {o} ELSE freed
        /\ call' = [call EXCEPT ![c] = [f EXCEPT !.pc = "python", !.after = f.pc]]

-----------------------------------------------------------------------------
(* numpy(ty).                                                              *)

Hit(ty) == npModule # Absent /\ \E i \in 1 .. Slots : np[i] = ty

Begin(c, ty) ==
  /\ call[c].pc = "idle"
  /\ \A d \in Calls : call[d].pc \in {"idle", "python"}   \* the GIL
  /\ ~Hit(ty) /\ interned

(* A hit, a missing module and the module already read end the lookup.     *)
NumpyMiss(c) ==
  \E ty \in Types : /\ Begin(c, ty) /\ sys # Absent /\ sys # npModule
                    /\ Incref(sys)
                    /\ call' = [call EXCEPT ![c] = [Idle EXCEPT !.pc = "clear", !.ty = ty,
                                                                !.module = sys]]
                    /\ nested' = (nested \/ \E d \in Calls : call[d].pc # "idle")
                    /\ UNCHANGED <<pyVars, cache>>

MutClearModule(c) ==    \* the owner stays until another one is read
  /\ call[c].pc = "clear"
  /\ call' = [call EXCEPT ![c].pc = "types", ![c].slot = 1]
  /\ UNCHANGED <<pyVars, cache, refs, nested>>

(* release: the field is cleared first, then the reference is given up.    *)
ClearModule(c) ==
  /\ call[c].pc = "clear"
  /\ npModule' = Absent
  /\ LET f == [call[c] EXCEPT !.pc = "types", !.slot = 1]
     IN  IF npModule = Absent
           THEN call' = [call EXCEPT ![c] = f] /\ UNCHANGED <<refs, freed>>
           ELSE Decref(c, npModule, f)
  /\ UNCHANGED <<sys, names, capsule, changes, interned, np, dt, nested>>

MutClearType(c) ==      \* the types are forgotten, not released
  /\ call[c].pc = "types" /\ call[c].slot <= Slots
  /\ LET i == call[c].slot
     IN  /\ np' = [np EXCEPT ![i] = Absent]
         /\ call' = [call EXCEPT ![c].slot = i + 1]
  /\ UNCHANGED <<pyVars, interned, npModule, dt, refs, nested>>

ClearType(c) ==
  /\ call[c].pc = "types" /\ call[c].slot <= Slots
  /\ LET i == call[c].slot
         f == [call[c] EXCEPT !.slot = i + 1]
     IN  /\ np' = [np EXCEPT ![i] = Absent]
         /\ IF np[i] = Absent
              THEN call' = [call EXCEPT ![c] = f] /\ UNCHANGED <<refs, freed>>
              ELSE Decref(c, np[i], f)
  /\ UNCHANGED <<sys, names, capsule, changes, interned, npModule, dt, nested>>

ClearDone(c) ==
  /\ call[c].pc = "types" /\ call[c].slot > Slots
  /\ call' = [call EXCEPT ![c].pc = "read"]
  /\ UNCHANGED <<pyVars, cache, refs, nested>>

(* read_numpy takes a reference to every type; if a name is missing or a   *)
(* lookup raises it gives back those it has, which are not the last ones.  *)
Readable(m) == m \notin NotModules /\ names[m] = 1 .. Slots

MutReadGroup(c) ==      \* the module is stored without its reference
  LET m == call[c].module IN
  /\ call[c].pc = "read" /\ Readable(m)
  /\ np' = Group(m) /\ npModule' = m
  /\ refs' = [o \in Owned |-> IF o \in Types /\ o[1] = m THEN refs[o] + 1
                              ELSE IF o = m THEN refs[o] - 1 ELSE refs[o]]
  /\ call' = [call EXCEPT ![c] = Idle]
  /\ UNCHANGED <<pyVars, interned, dt, nested>>

ReadGroup(c) ==
  LET m == call[c].module IN
  /\ call[c].pc = "read" /\ Readable(m)
  /\ np' = Group(m) /\ npModule' = m
  /\ refs' = [o \in Owned |-> IF o \in Types /\ o[1] = m THEN refs[o] + 1 ELSE refs[o]]
  /\ call' = [call EXCEPT ![c] = Idle]
  /\ UNCHANGED <<pyVars, interned, dt, nested>>

ReadFails(c) ==
  /\ call[c].pc = "read" /\ (~Readable(call[c].module) \/ LookupFails)
  /\ call' = [call EXCEPT ![c].pc = "drop"]
  /\ UNCHANGED <<pyVars, cache, refs, nested>>

DropModule(c) ==
  /\ call[c].pc = "drop"
  /\ Decref(c, call[c].module, Idle)
  /\ UNCHANGED <<sys, names, capsule, changes, cache, nested>>

-----------------------------------------------------------------------------
(* datetime(): the group is read once and trusted from then on.  Every     *)
(* reference it drops on the way is one that sys.modules also holds.       *)

LoadDatetime ==
  /\ \A d \in Calls : call[d].pc \in {"idle", "python"}
  /\ ~dt /\ interned /\ capsule
  /\ dt' = TRUE
  /\ refs' = [refs EXCEPT ![Capsule] = @ + 1, ![Datetimes] = @ + 1]
  /\ UNCHANGED <<pyVars, interned, npModule, np, call, nested>>

(* clear, when the module is collected.  No call is in progress then: its  *)
(* caller holds the module.  A second clear finds nothing to release.      *)
Clear ==
  /\ \A d \in Calls : call[d].pc = "idle"
  /\ interned' = FALSE /\ dt' = FALSE
  /\ npModule' = Absent /\ np' = EmptyGroup
  /\ LET released == {npModule} \cup {np[i] : i \in 1 .. Slots}
                       \cup (IF dt THEN {Capsule, Datetimes} ELSE {})
     IN  refs' = [o \in Owned |-> IF o \in released THEN refs[o] - 1 ELSE refs[o]]
  /\ UNCHANGED <<pyVars, call, nested>>

-----------------------------------------------------------------------------
(* Python. *)

PythonRuns == \A d \in Calls : call[d].pc \in {"idle", "python"}

Import(m) ==
  /\ PythonRuns /\ changes > 0 /\ m \notin freed /\ sys # m
  /\ sys' = m /\ changes' = changes - 1
  /\ UNCHANGED <<names, capsule, freed, cache, refs, call, nested>>

DeleteName(m, i) ==
  /\ PythonRuns /\ changes > 0 /\ m \notin freed /\ i \in names[m]
  /\ names' = [names EXCEPT ![m] = @ \ {i}] /\ changes' = changes - 1
  /\ UNCHANGED <<sys, capsule, freed, cache, refs, call, nested>>

ImportDatetime ==
  /\ PythonRuns /\ ~capsule /\ capsule' = TRUE
  /\ UNCHANGED <<sys, names, freed, changes, cache, refs, call, nested>>

FinalizerReturns(c) ==
  /\ call[c].pc = "python"
  /\ \A d \in Calls : call[d].pc \in {"idle", "python"}
  /\ call' = [call EXCEPT ![c].pc = call[c].after]
  /\ UNCHANGED <<pyVars, cache, refs, nested>>

-----------------------------------------------------------------------------

Init ==
  /\ sys \in Modules \cup {Absent}
  /\ names = [m \in Modules |-> 1 .. Slots]
  /\ capsule \in BOOLEAN
  /\ freed = {} /\ changes = MaxChanges
  /\ interned = TRUE /\ npModule = Absent /\ np = EmptyGroup /\ dt = FALSE
  /\ refs = [o \in Owned |-> 0]
  /\ call = [c \in Calls |-> Idle] /\ nested = FALSE

Step(c) ==
  \/ NumpyMiss(c) \/ ClearModule(c) \/ ClearType(c) \/ ClearDone(c)
  \/ ReadGroup(c) \/ ReadFails(c) \/ DropModule(c) \/ FinalizerReturns(c)

Python ==
  \/ \E m \in Modules \cup {Absent} : Import(m)
  \/ \E m \in Modules, i \in 1 .. Slots : DeleteName(m, i)
  \/ ImportDatetime

Next == (\E c \in Calls : Step(c)) \/ LoadDatetime \/ Clear \/ Python

Spec == Init /\ [][Next]_vars

-----------------------------------------------------------------------------
(* Properties.                                                             *)

(* Every variable keeps its type; no reference count goes below zero.      *)
TypeOK ==
  /\ sys \in Modules \cup {Absent}
  /\ names \in [Modules -> SUBSET (1 .. Slots)]
  /\ capsule \in BOOLEAN /\ interned \in BOOLEAN /\ dt \in BOOLEAN
  /\ freed \subseteq Modules
  /\ changes \in 0 .. MaxChanges
  /\ npModule \in Modules \cup {Absent}
  /\ np \in [1 .. Slots -> Types \cup {Absent}]
  /\ refs \in [Owned -> Nat]
  /\ call \in [Calls -> Lookup] /\ nested \in BOOLEAN

(* The references to o that the cache and the lookups in progress hold.    *)
Pointers(o) ==
  Cardinality({i \in 1 .. Slots : np[i] = o})
    + Cardinality({c \in Calls : call[c].module = o})
    + (IF npModule = o THEN 1 ELSE 0)
    + (IF dt /\ o \in {Capsule, Datetimes} THEN 1 ELSE 0)

(* Nothing leaks and nothing is released twice, through misses, reloads,   *)
(* failed reads, imports in finalizers and clear: numpy, read_numpy,       *)
(* clear_numpy, load_datetime and clear keep the counts exact, unless a    *)
(* lookup begins in another one's finalizer.                               *)
NoLeak == ~nested => \A o \in Owned : refs[o] = Pointers(o)

(* Whatever calls a finalizer makes, the cache never points to an object   *)
(* it does not own: neither a group half released (clear_numpy) nor one    *)
(* that another call replaced dangles.                                     *)
NoDangling == \A o \in Owned : refs[o] >= Pointers(o)

Quiet == \A c \in Calls : call[c].pc = "idle"

(* "A group is Absent iff its owner pointer is null" (types.rs:9), between *)
(* lookups: a group is never half there.                                   *)
GroupWhole ==
  Quiet => IF npModule = Absent THEN np = EmptyGroup
                                ELSE \A i \in 1 .. Slots : np[i] # Absent

(* The same, of lookups that are not made in each other's finalizers,      *)
(* however they fail and whatever is imported meanwhile (read_numpy,       *)
(* clear_numpy).                                                           *)
GroupWholeAlone == ~nested => GroupWhole

(* numpy's types are never lost for good: a module that counts as read     *)
(* (numpy() does not look at it again) has its own types in the group.     *)
NumpyRecognised ==
  ~nested /\ Quiet /\ sys # Absent /\ npModule = sys => np = Group(sys)
=============================================================================
