# A TLA+ model of isojson

isojson is a JSON library for CPython 3.14, written in Rust against the C API,
that is safe in subinterpreters: all its Python objects live in the module state
of one interpreter. This directory models the parts of `src/src` where Rust's
rules do not help: raw pointers to Python objects, reference counts kept by
hand, Python code that runs in the middle of native code, and stores through raw
pointers into a buffer and out of an array's memory. TLC checks the models on
small instances, and TLAPS proves theorems about all of them, except where a property
compares a whole document or array with a recursive definition of its text.

Paths below are relative to `src/`.

## Inventory

| part | code | state | operations | what is hard |
|---|---|---|---|---|
| encoder (`dumps`) | `src/encode.rs` | one `Encoder` per call: buffer, depth counters, `guard`, `dt`, `np_rechecked`; the native stack | `serialize`, the loops of list, tuple and dict, `dict_sorted`, `default`, `utcoffset` | callbacks and finalizers change and free what the walk points to; failures unwind through held references; both recursion limits |
| type cache | `src/types.rs` | per interpreter: interned names, datetime group, numpy group and its module | `datetime`, `numpy`, `clear`, `traverse` | giving up a module runs Python, which looks types up in the same cache |
| decoder (`loads`) | `src/decode.rs` | per thread: `SCRATCH`; per interpreter: `KeyCache`; per call: the partial containers | `loads`, `run`, `build`, `KeyCache::get`, `raise_decode_error` | references on every failure path; unchecked reads of the tape; calls nested in the raise of an error |
| module state | `src/lib.rs` | `decode_error`, key cache, type cache | `module_exec`, `traverse`, `clear`, `free` | exec fails half-way; each reference is visited and released once |
| output buffer | `src/out.rs` | a `bytes` object, length, capacity | `reserve`, `grow`, `push`, `set_len`, `finish`, drop | unchecked writers rely on the capacity reserved |
| string escaping | `src/encode.rs`, `src/swar.rs` | none | `copy_plain`, `put_escape`, `write_escaped` | word-wise copies past the end of the text |
| numpy | `src/numpy.rs`, `src/decline.rs` | array interface, strides | `serialize_array`, `walk`, `serialize_scalar`, `classify` | strides and row buffers; an element declined half-way |
| calendar | `src/datetime.rs` | none | `civil_from_days`, `parse_dt64`, `dt64_to_parts`, formatting | 64-bit bounds, negative ticks, NaT |
| str fast path | `src/strfast.rs` | a process-wide switch | `self_check`, `text` | several interpreters import at once |
| float text | `src/float.rs` | none | formatting in place | the formatter's buffer is larger than its text |
| Python package, tests, bench | `python`, `tests`, `bench` | none | | |

How they interact: `dumps` and `loads` are called by Python with the GIL. `dumps`
asks the type cache for the datetime group first (its presence decides `guard`),
walks the value, and calls Python for `default`, for a `utcoffset`, for attributes
of arrays, for the conversion of long integers, and in finalizers that a
`Py_DECREF` runs. `loads` lets simd-json fill a tape in the thread's scratch,
builds the value, which runs no Python, and calls Python only to construct
`JSONDecodeError` and to release a buffer. All Python code may call `dumps` and
`loads` again.

What makes each part correct: the encoder never uses a freed object, balances its
references, writes one JSON document or fails once and for all, and terminates.
The type cache owns exactly what it points to, and its groups are whole or absent.
`loads` returns the document's value or leaves an exception, leaks nothing, and
never reads past the tape. The module's state is visited and released exactly,
wherever its import failed. The buffer is a plain sequence of bytes to those who
write to it, as long as they reserve what they store; strings read back as
themselves. An array is written element by element in row-major order or not at
all, and a datetime64 as the date it is.

## Modules

**Encoder** is the walk of `dumps`. A frame of `stack` is a Rust call in progress;
`pc` says what happens next: a call of `serialize` on `arg`, a loop's next step, a
return of `ok`, a roll back, or Python code. `refs` is the set of references the
walk owns, named by the frame that took them, so that a leak and a double release
are both visible. The heap is `items`; an object exists while something reaches
it, and cycles count as freed at once, the earliest moment CPython could free
them. The buffer is a sequence of tokens. Python code is the actions `Py...`: it
clears, deletes, appends and rebuilds any container it can reach, up to
`MaxMutations` times per call, imports datetime, raises or returns. A `Decref` that
gives up the last reference to something may run such code too.

**EncoderGrammar** states what the text must be whatever Python does: `WellFormed`, a
JSON automaton over the tokens. **EncoderText** adds `OutputIsReference`, a recursive
definition of the document for a heap that stays as it is.

**EncoderProofs** (types, shape, depth, failure, text) and **EncoderMemoryProofs** (references,
pointers, the stack) hold the theorems about Encoder; **TypeCacheProofs**,
**LoadsProofs**, **ModuleLifeProofs**, **WritersProofs** and **NumpyProofs** those about the
module each is named after. **SetFacts** has induction over the naturals in the form they use,
and lemmas about counting.

**TypeCache** is `types.rs`: each call in `Calls` is one lookup, in the steps
between which a finalizer may run. A call whose `pc` is `"python"` is suspended
below Python code, and only then can another call run: that is the GIL.

**Loads** is `decode.rs`. `calls` is the stack of nested calls of one thread. The
tape is a constant whose nodes are read at `i`; `Laid` is what simd-json promises of it: one
value, in which a container is followed by as many items as it says, and says how many nodes
these take. `partials` are the containers being filled. `owned` counts the references that native code and the callers of
`loads` hold, and everything not reachable from them is freed. An allocation fails
at any point, `MaxFailures` times; that of the UTF-8 of a str (`EncodeFails`) is taken for an error
of the document. Every document but a blank one is one whose UTF-8 as a str may have to be allocated. Interpreter-private state makes one
interpreter's cache enough: another interpreter has other objects and, in
the same thread, shares only the scratch, whose use the nested calls cover.
Left out: the one-character Latin-1 strings that CPython shares, the wording of
errors, and the position in the document.

**LoadsText** states what the value must be, by a recursive reading of the tape.

**OutputBuffer** is `out.rs` as operators on a buffer's value: its object (`bytes`,
`spill` or none), its memory, its length, and the number of `bytes` objects the call
owns. An operator that allocates gives the set of its outcomes, so `Grow` may spill
into a `Vec` and `Finish` may fail. **Swar** is the word test of `swar.rs` over
sequences of bytes.

**Writers** is everything that stores through the buffer's raw pointer, as a state
machine: `copy_plain` and `put_escape` under `write_escaped` (actions `StartUtf8`,
`CopyWide`, `CopyRest`, `CopyStops`, `Escape`, `CloseUtf8`), `write_escaped_ucs`
(`StartUcs`, `Ucs...`), floats formatted in place, `small_copy` and rows of integers
with `copy_digits`, and an array's roll back. `dst` and `i` are the code's `dst` and
`i`. A store is made byte for byte, but clipped at the capacity; `fits` remembers
whether one had to be. What is written in which order is
Encoder's business, so here any writer may follow any other.

**ByteSink** is the abstract specification of that buffer: a text that grows at its
end, is rolled back to where an array began, and is delivered or given up.
Writers states that it implements ByteSink: the text is the memory up to `len`, the mark is
`start`. **WritersText** reads strings back by the grammar of JSON.

**NumpyArrays** is `numpy.rs` with `classify` of `decline.rs`. `frames` is the stack of
`walk`'s loops, each with its index and its address; an address is an offset into the
array's memory, and `reads` remembers those read. The interface is held from
`GetArrayStruct` on. **Calendar** is `datetime.rs` as pure functions; a
text is the sequence of its fields. **NumpyDates** states, by a calendar that counts days,
which objects can be written and what the text of a datetime64 value or an offset must say.
**NumpyText** adds the nested list of an array, by its shape.

**ModuleLife** is `lib.rs`, with `init`, `traverse` and `clear` of `types.rs` and
`self_check` of `strfast.rs`: for each interpreter the import call by call (`pc`), the
fields that are set, and the references owned. `Traverse` is a set and not an action:
the collector may ask for it in every state. Calls of `dumps` and `loads` appear as
what they load into the state, also from finalizers while `clear` is between two releases.

`MC...` modules give the constants of the runs.

## Runs

| run | shows | bounds |
|---|---|---|
| EncoderMemory | `NoUseAfterFree`, `RefsBalanced`, `GuardSound`, `WellFormed`, `FailureIsFinal`, `TypeOK` | three heaps with containers inside each other, a hole, a key that is no text and an array declined part way, over objects that run Python; one change by Python, with and without sorting |
| EncoderLimits | `DepthIsNesting`, `StackBounded`, `LateDatetimeHonoured`, `Terminates` | a cycle through all three containers, a default returning its argument, dates before and after the import; one change by Python; limits of a few levels instead of 254 and 255 |
| EncoderReference | `OutputIsReference` | every list of up to two items and dict of up to two entries over eight objects, cyclic ones included, and dicts in which two keys have the same text, at `MaxDepth` = 2 |
| EncoderHugeInt | violation of `GuardSound` | one list with one integer |
| TypeCache | `NoDangling`; without interleaving `NoLeak`, `GroupWholeAlone`, `NumpyRecognised`; `TypeOK` | two calls, three modules, one of them no module object, groups of two types, four changes by Python, any lookup failing |
| TypeCacheGroups | violation of `GroupWhole` | two calls |
| LoadsFailures | `RefsExact`, `ScratchFree`, `InBounds`, `Answer`, `TypeOK` | three calls, two nested, one failing allocation, tapes with nesting, repeated names and colliding keys |
| LoadsReturns | `Returns` | three calls nested three deep, every kind of argument |
| LoadsValues | `ResultDenotes` | every pair of 110 tapes; two cache slots, two keys of equal hash, one that shares their slot, one never cached |
| ModuleLife | `TraverseExact`, `NothingLeft`, `FastPathRight`, `TypeOK` | two interpreters, any call of the import failing, two probes that agree or do not |
| Writers | `InCapacity`, `SwarExact`, `OneObject`, `ReadsBack`, `ImplementsByteSink`, `TypeOK` | every sequence of texts that `MaxUnits` allows (one text of up to six bytes, or two shorter ones), over bytes on both sides of each special one; a first buffer of 2 or 10 bytes |
| Numpy | `ReadsRowMajor`, `WholeOrNothing`, `WrittenIffPossible`, `ScalarRight`, `TextRight`, `OffsetsRead`, `TypeOK` | fifteen shapes of up to three dimensions, empty ones included, with arbitrary unused strides; an element without a text at every place; scalars of every unit and three multipliers around 1970, both ends of the calendar and of the integers; five days of every year in 1600 to 2001 |

Why these bounds are enough: the encoder's rules relate a frame to the one below
it and to the heap, so two or three levels with each kind of container, and one
change, produce every combination of neighbouring frames. A key cache
of two slots has hits, misses, evictions and full collisions. One failing
allocation reaches every failure path; there is no retry a second one
could interrupt, except for the two arguments of an error, and these fail together only with
`MaxFailures` at two. `MaxObjects` never limits a run: in LoadsFailures and LoadsReturns an
object is free in every state, and LoadsValues, which has no failures, would deadlock in a
call that finds none.

In Writers a vector has 4 bytes and a word 2, instead of 16 and 8, and the first buffer
2 bytes instead of 64: every formula of the capacity has the vector's size as a
parameter, and a text of six bytes passes through two vectors, a word and single bytes.
The subtraction of `swar.rs` borrows from a byte only into the next, so words of two show it.
The lengths of digits, escapes and UTF-8 are the real ones.

In Numpy the days and years are the real ones, but a day has 8 seconds of 4 microseconds:
TLC's integers have 32 bits. `Thousand`, `Sixty`, `TwentyFour`, `MaxI64` and `MaxI128` are
constants of Calendar for that reason. With the real constants a product of two i64 fits
an i128 and the first `checked_mul` never fails; here it may, and only such products
are tried as are out of the calendar anyway.

### What the two violations say

`EncoderHugeInt`. `guarded` takes no reference when `guard` is false, because
"With `guard` false no Python code can run during serialization"
(`src/encode.rs:394`). An integer outside 64 bits is written by `PyNumber_ToBase`
(line 638); for integers of thousands of digits CPython 3.14 does the conversion in the
Python module `_pylong`, which needs the digit limit of `sys.set_int_max_str_digits` raised or
lifted. So Python code runs with `guard` false. `GuardSound` holds in
EncoderMemory, where no integer is that long.

`TypeCacheGroups`. "A group is Absent iff its owner pointer is null"
(`src/types.rs:9`). `clear_numpy` first gives up the module, then the types. If
that was the last reference, a finalizer may call `dumps`, which finds the group
absent and reads the new module's. Back in the outer call, `release_all` clears
the types just read. If the outer call's own module then turns out to be unusable,
the owner is set and the types are null, and `numpy()` never reads that module
again. No memory is corrupted: `NoDangling` holds in the run TypeCache, which has
all of these behaviours and failing lookups besides. `GroupWholeAlone` says that the group
is whole as long as no lookup has begun inside another one's finalizer.

### Observations without a run

- `loads` asks for the UTF-8 of a str with `PyUnicode_AsUTF8AndSize`, which allocates it if the
  str is not ASCII and has none cached. If the memory runs out there, `loads` clears the
  MemoryError like any other failure (`decode.rs:440`) and raises `JSONDecodeError`, "str is not valid
  UTF-8: surrogates not allowed" (line 444), for a str that holds none; every other failing
  allocation reaches the caller as MemoryError. `Answer` says that this is the only way to
  `JSONDecodeError` for a document that is JSON, and `AlwaysAnswers` proves it: without `Unencoded`,
  `EncodeFails` violates it. `as_utf8` (`strfast.rs:131`) takes a failure for surrogates too, but
  there only the text of a message depends on it.
- `strfast.rs:209` says that every interpreter's check stores the same value. If memory for
  a probe's cached UTF-8 runs out, that check turns the switch off for the whole process,
  and its import fails with the MemoryError still set. The switch is only ever wrong on the safe side
  (`FastPathRight`).
- `numpy.rs:327` says that the leaves' own capacity checks never grow a reserved row. A
  float32 reserves 24 bytes for the formatter where its share of the row is 17, so near the end of a
  row it may grow. Nothing depends on it: `InCapacity` counts each float's own reserve.
- After `module_clear`, `decode_error` is null, but `loads` can still be called by a
  finalizer that runs later; an invalid document then reaches `PyObject_Vectorcall` with a
  null type (`decode.rs:353`). The type cache checks its names for null in the same situation.

## Fairness

Encoder assumes weak fairness of the walk and of Python together: the thread runs, and
a callback returns. `Terminates` moreover rests on a limit that the code does not set: Python changes
containers at most `MaxMutations` times during a call, all callbacks and finalizers together. Some
limit is needed. `list` reads the size again at every step (`encode.rs:668`), so a `default` that
appends to the list being walked each time it is called never lets `dumps` return. What the run
excludes is a `dumps` that goes on although the containers have stopped changing. Loads assumes weak fairness of native
code, in which the return of the error's constructor is included. Neither assumes that
Python makes a call, gives anything up or succeeds. The other modules state no liveness:
their loops run over a finite text, array or list of names, and nothing waits. TLC finds
no deadlock in Encoder, TypeCache and Loads; the other runs stop when the bound on calls is
reached, the object is written or the modules are freed.

## Proofs

Every theorem has the form `Spec => []P` (or an action property or a refinement), holds for
all constants that satisfy the module's assumption, and follows from an inductive
invariant: the property itself is mostly not one. What each invariant adds:

`EncoderProofs`, from `EncoderAssumption`: any heap, classes, options and limits.

- `TypeInv` is the inductive form of `TypeOK`. It needs lemmas about the heap (`Reach` stays
  in `Obj`) and about sequences (what pushing, popping and replacing the top frame keeps).
- `ShapeInv` says where the walk stands: at most one call into Python, on top;
  while a failure travels, nothing but releases and finalizers run. From it follows
  `FailureStays`.
- `DepthInv` says, for a walk that has not failed, that `depth` is the number of
  container frames and `default_depth` the number of result frames. It needs
  `ShapeInv`, since a release that succeeded still has its container open. From it
  follow `DepthCorrect` and, since a counter that counts frames is never decremented
  at zero, `TypeCorrect`: the `u32` counters do not wrap.
- `TextInv` relates the text to the stack, for a walk that has not failed. The contexts that
  reading the text leaves open (`After(out)`) are those of the loops in progress and one on top
  of them: when `serialize` is entered a context that expects a value (`ValueDue`), when a call returns
  none (`Full`), when a loop goes on the one its frame remembers (`StepDue`: `pos` and `first`
  say whether a comma comes next), while an array is rolled back those before the array. The
  lemmas about the automaton say that texts are read one after the other (`EndConcat`), that what can
  be read can be read up to any mark (`EndPrefix`: a half-written array) and that a whole
  document can stand wherever a value is due (`ValueAnywhere`: an array's text). From it follows
  `TextCorrect`. It assumes `GrammarAssumption`, that what a whole array or scalar of
  numpy emits is one value; which one it is, NumpyDates and NumpyText say.

`EncoderMemoryProofs`. Every step of the walk is one of some fifteen moves of the stack and of
the references (`StepMoves`: it stays, changes the heap, pushes a frame with or without a
reference, asks Python, returns, begins or goes on with a release ...), and each invariant is
kept by each move; the actions are looked at once.

- `BalanceInv`: `refs` is the union of what each frame by its kind and position owns
  (`AllOf(stack)`). `RefsBalanced` is the same seen from the properties.
- `GuardInv`, for `NoHugeInt`: with `guard` false nothing the walk stands on can run Python,
  so neither a callback nor a finalizer is reached, and the heap is never changed: what is
  reached stays inside what was reached at the start.
- `FirmInv`, with `guard` true: every frame stands on something owned by a frame at or below
  it (`Secure`), and what is handed to `serialize` is held by the frame that hands it over
  (`Entered`). A frame of a tuple needs no hold on its items, because Python cannot change a tuple.
  With `guard` false, `GuardInv` says that nothing can be freed at all. `NothingDangles` needs both.
- `Propped`: a hold stands on a container's frame, so there are at most as many of them; with
  `DepthInv` this bounds the stack (`HeightCorrect`).
- `LateDatetimeCorrect` needs only `TypeInv`.

`NoHugeInt` says that no object is an int so long that CPython converts it in Python code;
without it `GuardSound` and `NoUseAfterFree` are false (run EncoderHugeInt). It is a hypothesis
of those two theorems only, and most heaps satisfy it.

`TypeCacheProofs`, from `TypeCacheAssumption`: types, modules, the capsule and `Absent` are
different things. `CountInv` counts the pointers to an object from the cache and from the lookups'
steps: there are never more of them than references, and as many while lookups do
not nest (`nested` is a history variable). `AloneInv` says what a lookup that is alone knows at
each step: which slots it has cleared, and that the owner is set last.

`ModuleLifeProofs`: `LifeInv` relates `pc`, `set` and `refs` of each interpreter: where the
import stands is exactly which fields are set, and one reference is owned for each of them
and for what is in hand. `SwitchInv` says for every interpreter that its `ok` implies that the probes before `probe`
agree, and that either switch, once on, stands for all probes.

`WritersProofs`, from `WritersAssumption`: a vector is at least 4 bytes wide and a word not
wider than a vector, a float's text at most 24 bytes, an integer's at most 20. `WorkInv` is
the invariant of the writers' loops: behind `dst` there is room for all that is left, `Need`, in the
form in which each writer reserved it: `n - i + 1 + Wide` bytes for a
UTF-8 text, whose escapes reserve their own excess, `(n - i) * width + 1` for another one,
`(n - i) * 21 + 1` for a row. `SwarExact` is arithmetic: a borrow leaves a byte only
if that byte is itself below the limit, so the lowest flagged byte is a true one; it is proved
for words of any length by descent to the least counterexample. `Refinement` maps each step: storing beyond `len` is a stutter of
the abstract text, `set_len` appends, and growing, spilling and moving leave it alone.

`NumpyProofs`, from `NumpyAssumption`: an array that says it is C-contiguous is, which means
that its strides are those of its shape except where numpy leaves them unspecified,
at dimensions of length 1 and in arrays without elements. `WalkInv` says that each loop's
address is where the loop around it stands, and that the elements read are all those before the
innermost address, in order; closing a dimension needs that a whole row of the outer one is then read.

Its theorems about dates also use `DatesAssumption`: an element is an i64, an offset is less than a
day, as CPython requires, the digits in a dtype are digits, and an i128 has room for every date in
the finest unit. They hold with the real constants as with those of the run.

- `OffsetsCorrect` and `AlwaysScalarRight` rest on two theorems about Calendar. `CivilRight` says
  that `civil_from_days` gives, for every day of the years 0 to 9999, the valid date that counting
  arrives at. Its proof follows the code: the era of 400 years, then the year of the era (the day
  lies between the first days of two successive years, both by the formula with 1460, 36524 and
  146096), then the month of a year that begins in March, against the running sum of the lengths of
  months. `PartsAre` says what `dt64_to_parts` answers, by base: a date in the years 0 to 9999 with the
  right day and time of day exactly if the value has one (`HasDate`), and otherwise
  `Unrepresentable` or `GenericUnit`. Its checked multiplications fail only beyond the calendar.
- `PossibleInv` is the invariant behind `AlwaysWrittenIffPossible`: the unit in hand is the one
  read from the dtype, and every element read so far is NaT or has a date. With `WalkInv`, which
  elements have been read is known, so an array that is written has had all of them looked at, and one that
  is declined was declined for its layout, its unit or an element that has no date.

`LoadsProofs`, from `LoadsAssumption`: the tapes are `Laid`, and the constants on them are among
`Singletons`. The invariant has a part for each question:

- `StageInv` says what a call knows at each step (`FrameOK`: which exception is set, whether there
  is a result, whether the argument was at fault), that a call below another one is in the error's
  constructor or releases a view, and that the scratch is borrowed exactly while the
  innermost call builds. From it follows `AlwaysFree`, and with `EncodeInv`, that a call without the
  UTF-8 of its str has seen an allocation fail, `AlwaysAnswers`.
- `CountInv` is the first part of `RefsExact`, that `owned` is the number of holders of each object
  (containers being filled and their keys, `val`, the cache, the results of calls in progress and
  those handed to callers), with what makes it inductive: what is owned is not freed, nor are the
  singletons, and no object is in two slots of the cache. An object is freed when nothing owned reaches it, so the first
  needs that `Alive` contains what is owned (its recursion ends because inclusion is well-founded
  on finite sets). How the number of holders changes is a lemma for each move: a container
  pushed, closed or dropped, a key put into it, a slot of the cache replaced.
- `WaitInv` says that an open container is never full, and `TapeInv` how the containers lie on
  the tape: the innermost is at the node that the one around it takes next (`Reads`), and a
  finished value ends where the next node is read. From both follows `AlwaysInBounds`; that
  `build` stops at the last node is the case of no open container.

`SetFacts` proves, from the well-foundedness of the subset ordering on finite sets, that
a set of naturals has a least element, and induction over sets instead of
predicates. With it some recursively defined functions can be reasoned about
(`Bytes` and `IntRow` of NumpyArrays, the subtraction of Swar). Its counting lemmas say how
a cardinality changes when one slot of a function or one place of a sequence does.

Only model-checked: the texts `OutputIsReference`, `ReadsBack`, `ResultDenotes` and
`TextRight`, which compare with a recursive definition of the whole document, string or array.
Out of the prover's reach: `Terminates` and `Returns` (liveness), and the recursive operators of
EncoderText, LoadsText, WritersText and NumpyText.

## Not modelled

Wording of errors and notes, indentation of the encoder's own containers, and digits
(numbers stand for them, as fields or as lengths). The comparator of `dict_sorted` (a rank stands for the order of texts, as
bytes or by `PyUnicode_Compare`; keys of equal rank occur). `is_ascii`, one mask in a loop, and `f16_to_f32`, whose
65,536 inputs a test runs. `describe`, the hash function, and the choice of a str's kind
in `decode.rs`. The reserve that `walk` makes for a chunk of a row (`numpy.rs:327`): every leaf
reserves what it needs itself. A `Vec` that cannot grow ends the process. The Python package keeps no state. Reading a str's header and what
simd-json accepts are constants.

## Plan

1. Done: Encoder, EncoderText, TypeCache, Loads, LoadsText; type, depth and failure theorems.
2. Done: OutputBuffer, Writers and their refinement of ByteSink; ModuleLife; Calendar,
   NumpyArrays and NumpyText; the runs of TypeCache in one.
3. Done: the theorems of ModuleLife, Writers, TypeCache and NumpyArrays; the references, the guard,
   the pointers and the stack of Encoder.
4. Done: the theorems of Loads, from a contract for the tape; that what `dumps` writes is JSON.
5. Done: of the texts, what needs no recursive operator: the calendar, the texts of dates and
   offsets, and which numpy objects are written (NumpyDates).
6. Left: the nested texts, should the prover learn to unfold recursive operators; until then
   they would have to be stated as automata, as `WellFormed` is.
