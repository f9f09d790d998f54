----------------------------- MODULE ModuleLife -----------------------------
(***************************************************************************)
(* The life of the extension module (src/src/lib.rs): module_exec, the     *)
(* calls that fill its state, traverse, clear and free, in several         *)
(* interpreters at once.  Each interpreter has a GIL and a module state of *)
(* its own; what they share is the switch of the str fast path             *)
(* (src/src/strfast.rs), which every module_exec sets after a self-check.  *)
(*                                                                         *)
(* Any call into CPython may fail, and the import fails with it.  CPython  *)
(* zero-fills the state, runs module_exec at most once for it, clears it   *)
(* only when nothing but garbage uses the module, and frees it when the    *)
(* last reference is gone; a function of the module keeps it alive.        *)
(***************************************************************************)
EXTENDS Naturals, Sequences, FiniteSets

CONSTANTS
  Modules,    \* one module object per interpreter
  Probes      \* the number of probe strings of self_check: 7

ASSUME ModuleLifeAssumption == IsFiniteSet(Modules) /\ Probes \in Nat \ {0}

Names == <<"_datetime", "numpy", "datetime_CAPI", "utcoffset", "__array_struct__", "dtype", "str">>
NameSet == {Names[k] : k \in DOMAIN Names}
Groups == {"dt_capsule", "dt", "np_module", "np"}
Fields == NameSet \cup Groups \cup {"decode_error", "key_cache"}
Temporaries == {"json", "base", "probe"}
Objects == Fields \cup Temporaries \cup {"keys"}   \* keys: what the key cache holds

VARIABLES
  pc,        \* where the module is in its life
  set,       \* the fields of its state that are not null
  refs,      \* the references, and for key_cache the boxes, it owns
  exc,       \* whether an exception is set in its interpreter
  ok,        \* self_check's local: every probe so far agreed
  probe,     \* the probe it is at
  at,        \* the release that clear is at
  python,    \* whether the last release may have run a finalizer
  fast,      \* the module's _str_fastpath
  enabled,   \* ENABLED, of the process
  agrees     \* the probes on which the header layout agrees with the API

life == <<pc, set, refs, exc, at, python>>
check == <<ok, probe, fast, enabled>>
vars == <<pc, set, refs, exc, ok, probe, at, python, fast, enabled, agrees>>

LayoutAgrees == agrees = 1 .. Probes     \* the fast path reads what the API reads

Goes(m, to) == pc' = [pc EXCEPT ![m] = to]
Take(m, os) == refs' = [refs EXCEPT ![m] = [o \in Objects |-> IF o \in os THEN @[o] + 1 ELSE @[o]]]
Give(m, os) == refs' = [refs EXCEPT ![m] = [o \in Objects |-> IF o \in os THEN @[o] - 1 ELSE @[o]]]
Put(m, fs) == set' = [set EXCEPT ![m] = @ \cup fs]

Fail(m) == Goes(m, "failed") /\ exc' = [exc EXCEPT ![m] = TRUE]

-----------------------------------------------------------------------------
(* module_exec, call by call. *)

BoxKeyCache(m) ==
  /\ pc[m] = "none" /\ Goes(m, "intern")
  /\ Put(m, {"key_cache"}) /\ Take(m, {"key_cache"})
  /\ UNCHANGED <<exc, at, python, check, agrees>>

(* TypeCache::init: the names one after the other.                         *)
Intern(m) ==
  /\ pc[m] = "intern"
  /\ LET k == Cardinality(set[m] \cap NameSet) + 1
     IN  \/ /\ Put(m, {Names[k]}) /\ Take(m, {Names[k]})
            /\ Goes(m, IF k = Len(Names) THEN "json" ELSE "intern")
            /\ UNCHANGED exc
         \/ Fail(m) /\ UNCHANGED <<set, refs>>
  /\ UNCHANGED <<at, python, check, agrees>>

ImportJson(m) ==
  /\ pc[m] = "json"
  /\ \/ Take(m, {"json"}) /\ Goes(m, "base") /\ UNCHANGED exc
     \/ Fail(m) /\ UNCHANGED refs
  /\ UNCHANGED <<set, at, python, check, agrees>>

GetBase(m) ==           \* json is given up whether or not it has the name
  /\ pc[m] = "base"
  /\ \/ /\ refs' = [refs EXCEPT ![m].json = @ - 1, ![m].base = @ + 1]
        /\ Goes(m, "exception") /\ UNCHANGED exc
     \/ Fail(m) /\ Give(m, {"json"})
  /\ UNCHANGED <<set, at, python, check, agrees>>

NewException(m) ==
  /\ pc[m] = "exception"
  /\ \/ /\ refs' = [refs EXCEPT ![m].base = @ - 1, ![m].decode_error = @ + 1]
        /\ Put(m, {"decode_error"}) /\ Goes(m, "constants") /\ UNCHANGED exc
     \/ Fail(m) /\ Give(m, {"base"}) /\ UNCHANGED set
  /\ UNCHANGED <<at, python, check, agrees>>

(* The exceptions and the options.  The module's dict takes references of  *)
(* its own, which are CPython's to give up.                                *)
AddConstants(m) ==
  /\ pc[m] = "constants"
  /\ \/ Goes(m, "new_probe") /\ UNCHANGED exc
     \/ Fail(m)
  /\ UNCHANGED <<set, refs, at, python, check, agrees>>

-----------------------------------------------------------------------------
(* strfast::self_check. *)

NewProbe(m) ==
  /\ pc[m] = "new_probe" /\ probe[m] <= Probes
  /\ \/ Take(m, {"probe"}) /\ Goes(m, "probe") /\ UNCHANGED exc
     \/ Fail(m) /\ UNCHANGED refs
  /\ UNCHANGED <<set, at, python, check, agrees>>

MutProbe(m) ==          \* a probe that agrees makes up for one that did not
  /\ pc[m] = "probe" /\ Goes(m, "new_probe")
  /\ Give(m, {"probe"}) /\ probe' = [probe EXCEPT ![m] = @ + 1]
  /\ ok' = [ok EXCEPT ![m] = probe[m] \in agrees]
  /\ UNCHANGED <<set, exc, at, python, fast, enabled, agrees>>

(* probe_agrees.  PyUnicode_AsUTF8AndSize may have no memory for the copy  *)
(* it caches: the probe then counts as not agreeing and the MemoryError    *)
(* stays set.  An ASCII probe needs no copy; the first one is ASCII.       *)
Probe(m) ==
  /\ pc[m] = "probe" /\ Goes(m, "new_probe")
  /\ Give(m, {"probe"}) /\ probe' = [probe EXCEPT ![m] = @ + 1]
  /\ \/ ok' = [ok EXCEPT ![m] = @ /\ probe[m] \in agrees] /\ UNCHANGED exc
     \/ probe[m] > 1 /\ ok' = [ok EXCEPT ![m] = FALSE] /\ exc' = [exc EXCEPT ![m] = TRUE]
  /\ UNCHANGED <<set, at, python, fast, enabled, agrees>>

StoreEnabled(m) ==
  /\ pc[m] = "new_probe" /\ probe[m] > Probes /\ Goes(m, "fastpath")
  /\ enabled' = ok[m]
  /\ UNCHANGED <<set, refs, exc, ok, probe, at, python, fast, agrees>>

(* _str_fastpath and __version__.                                          *)
AddFastPath(m) ==
  /\ pc[m] = "fastpath"
  /\ \/ /\ fast' = [fast EXCEPT ![m] = enabled]
        /\ Goes(m, "version") /\ UNCHANGED exc
     \/ Fail(m) /\ UNCHANGED fast
  /\ UNCHANGED <<set, refs, ok, probe, at, python, enabled, agrees>>

(* module_exec returns 0; CPython fails the import if an exception is set. *)
AddVersion(m) ==
  /\ pc[m] = "version"
  /\ \/ ~exc[m] /\ Goes(m, "ready") /\ UNCHANGED exc
     \/ Fail(m)
  /\ UNCHANGED <<set, refs, at, python, check, agrees>>

-----------------------------------------------------------------------------
(* Calls of dumps and loads, from Python or from a finalizer that a clear  *)
(* runs.  Which types a group has is TypeCache's business.                 *)

Callable(m) == pc[m] \in {"ready", "cleared"} \/ (pc[m] = "clearing" /\ python[m])

LoadDatetime(m) ==
  /\ Callable(m) /\ "_datetime" \in set[m] /\ "dt_capsule" \notin set[m]
  /\ Put(m, {"dt_capsule", "dt"})
  /\ Take(m, {"dt_capsule"} \cup ({"dt"} \ set[m]))
  /\ UNCHANGED <<pc, exc, at, python, check, agrees>>

(* Types that are still there without their module are given up first.     *)
LoadNumpy(m) ==
  /\ Callable(m) /\ "numpy" \in set[m] /\ "np_module" \notin set[m]
  /\ Put(m, {"np_module", "np"})
  /\ Take(m, {"np_module"} \cup ({"np"} \ set[m]))
  /\ UNCHANGED <<pc, exc, at, python, check, agrees>>

CacheKey(m) ==
  /\ Callable(m) /\ refs[m].keys = 0 /\ Take(m, {"keys"})
  /\ UNCHANGED <<pc, set, exc, at, python, check, agrees>>

-----------------------------------------------------------------------------
(* traverse, clear and free. *)

MutTraverse(m) == set[m] \cap ({"decode_error"} \cup Groups)    \* the names are forgotten

(* The references that module_traverse visits.  It is no action: it may    *)
(* run in every state.                                                     *)
Traverse(m) == set[m] \cap ({"decode_error"} \cup Groups \cup NameSet)

(* What clear gives up, step by step.  The strings of a step run no Python,*)
(* nor do _datetime's static types; the last reference to the others may.  *)
ClearOrder ==
  <<{"decode_error"}, {"keys", "dt_capsule", "dt"}, {"np_module"}, {"np"}, NameSet>>
RunsPython == {"decode_error", "np_module", "np"}

CollectBegins(m) ==
  /\ pc[m] \in {"ready", "failed"} /\ Goes(m, "clearing")
  /\ at' = [at EXCEPT ![m] = 1]
  /\ UNCHANGED <<set, refs, exc, python, check, agrees>>

MutFreeBegins(m) ==     \* what clear has cleared is not cleared again
  /\ pc[m] \in {"ready", "failed", "cleared"} /\ Goes(m, "freeing")
  /\ at' = [at EXCEPT ![m] = IF pc[m] = "cleared" THEN Len(ClearOrder) + 1 ELSE 1]
  /\ UNCHANGED <<set, refs, exc, python, check, agrees>>

FreeBegins(m) ==
  /\ pc[m] \in {"ready", "failed", "cleared"} /\ Goes(m, "freeing")
  /\ at' = [at EXCEPT ![m] = 1]
  /\ UNCHANGED <<set, refs, exc, python, check, agrees>>

Held(m) == set[m] \cup (IF refs[m].keys > 0 THEN {"keys"} ELSE {})

MutRelease(m) ==        \* the pointers are cleared one step late
  LET gone == ClearOrder[at[m]] \cap Held(m) IN
  /\ pc[m] \in {"clearing", "freeing"} /\ at[m] <= Len(ClearOrder)
  /\ set' = [set EXCEPT ![m] = IF at[m] = 1 THEN @ ELSE @ \ ClearOrder[at[m] - 1]]
  /\ Give(m, gone)
  /\ at' = [at EXCEPT ![m] = @ + 1]
  /\ python' = [python EXCEPT ![m] = gone \cap RunsPython # {} /\ pc[m] = "clearing"]
  /\ UNCHANGED <<pc, exc, check, agrees>>

(* release and KeyCache::clear: the pointer is cleared first.              *)
Release(m) ==
  LET gone == ClearOrder[at[m]] \cap Held(m) IN
  /\ pc[m] \in {"clearing", "freeing"} /\ at[m] <= Len(ClearOrder)
  /\ set' = [set EXCEPT ![m] = @ \ gone]
  /\ Give(m, gone)
  /\ at' = [at EXCEPT ![m] = @ + 1]
  /\ python' = [python EXCEPT ![m] = gone \cap RunsPython # {} /\ pc[m] = "clearing"]
  /\ UNCHANGED <<pc, exc, check, agrees>>

ClearEnds(m) ==
  /\ pc[m] = "clearing" /\ at[m] > Len(ClearOrder) /\ Goes(m, "cleared")
  /\ UNCHANGED <<set, refs, exc, at, python, check, agrees>>

FreeBox(m) ==
  /\ pc[m] = "freeing" /\ at[m] > Len(ClearOrder) /\ Goes(m, "freed")
  /\ set' = [set EXCEPT ![m] = @ \ {"key_cache"}]
  /\ IF "key_cache" \in set[m] THEN Give(m, {"key_cache"}) ELSE UNCHANGED refs
  /\ UNCHANGED <<exc, at, python, check, agrees>>

-----------------------------------------------------------------------------

Init ==
  /\ pc = [m \in Modules |-> "none"] /\ set = [m \in Modules |-> {}]
  /\ refs = [m \in Modules |-> [o \in Objects |-> 0]]
  /\ exc = [m \in Modules |-> FALSE] /\ ok = [m \in Modules |-> TRUE]
  /\ probe = [m \in Modules |-> 1] /\ at = [m \in Modules |-> 1]
  /\ python = [m \in Modules |-> FALSE] /\ fast = [m \in Modules |-> FALSE]
  /\ enabled = FALSE
  /\ agrees \in SUBSET (1 .. Probes)

Exec(m) ==
  \/ BoxKeyCache(m) \/ Intern(m) \/ ImportJson(m) \/ GetBase(m) \/ NewException(m)
  \/ AddConstants(m) \/ NewProbe(m) \/ Probe(m) \/ StoreEnabled(m) \/ AddFastPath(m)
  \/ AddVersion(m)

Call(m) == LoadDatetime(m) \/ LoadNumpy(m) \/ CacheKey(m)

End(m) == CollectBegins(m) \/ FreeBegins(m) \/ Release(m) \/ ClearEnds(m) \/ FreeBox(m)

Next == \E m \in Modules : Exec(m) \/ Call(m) \/ End(m)

Spec == Init /\ [][Next]_vars

-----------------------------------------------------------------------------
(* Properties.                                                             *)

PCs == {"none", "intern", "json", "base", "exception", "constants", "new_probe", "probe",
        "fastpath", "version", "ready", "failed", "clearing", "cleared", "freeing", "freed"}

(* Every variable keeps its type; no count goes below zero.                *)
TypeOK ==
  /\ pc \in [Modules -> PCs] /\ set \in [Modules -> SUBSET Fields]
  /\ refs \in [Modules -> [Objects -> Nat]]
  /\ exc \in [Modules -> BOOLEAN] /\ ok \in [Modules -> BOOLEAN]
  /\ probe \in [Modules -> 1 .. Probes + 1] /\ at \in [Modules -> 1 .. Len(ClearOrder) + 1]
  /\ python \in [Modules -> BOOLEAN] /\ fast \in [Modules -> BOOLEAN]
  /\ enabled \in BOOLEAN /\ agrees \subseteq 1 .. Probes

(* In every state, a module_exec that failed half-way and a clear that is  *)
(* interrupted by a finalizer's calls included, traverse visits each       *)
(* reference the state owns exactly once and nothing else, so the          *)
(* collector counts right; and the key cache is boxed iff it is pointed to.*)
TraverseExact ==
  \A m \in Modules :
    /\ \A f \in Fields \ {"key_cache"} : refs[m][f] = IF f \in Traverse(m) THEN 1 ELSE 0
    /\ refs[m].key_cache = IF "key_cache" \in set[m] THEN 1 ELSE 0

(* Whatever step of module_exec failed, and whatever groups and keys were  *)
(* loaded again while clear ran, a freed module owns nothing: free clears  *)
(* once more what clear left behind.                                       *)
NothingLeft == \A m \in Modules : pc[m] = "freed" => \A o \in Objects : refs[m][o] = 0

(* The fast path is never on, in any interpreter, unless the layout agrees *)
(* with the API on every probe, not even while another interpreter checks. *)
FastPathRight == enabled \/ (\E m \in Modules : fast[m]) => LayoutAgrees
=============================================================================
