# Verification of tlw

tlw is a header-only C++17 library that binds C++ to Lua 5.1 (LuaJIT): handles
of Lua states, references to Lua values, tables that can be iterated, Lua
functions that can be called, and C++ classes that scripts can use. This
directory holds TLA+ models of it, TLC configurations that check them, and
proofs that TLAPS checks. `PROJECT.json` maps every definition to the lines it
translates; paths below are relative to `src/include/tlw`.

## 1. Inventory

The library is single-threaded: it has no locks, no I/O of its own and nothing
that waits. What makes it hard is ownership. Two memory managers meet, C++
scopes and the collector of Lua; counts, registry slots, name buffers and stack
frames are kept by hand; and hardly any function checks what it is given. The
interleavings are those of constructors, assignments and destructors that the
program runs in any order, of C++ code and the scripts it calls, and of the
collector.

| part | state | operations | correct when |
|---|---|---|---|
| `state.hpp` | per handle a holder pointer; per holder the Lua state and a signed count (positive: owned, negative: the host's) | construct, wrap, copy, move, assign, destroy | counts are exact; an owned state is closed once, with its last owner; the host's never |
| `reference.hpp` | a borrowed state and a registry slot | from the stack, copy, move, assign, destroy, compare | each live slot has one owner; values live as long as a reference does; nothing touches a closed state unless it outlived it |
| `stack.hpp`, `detail/stack_traits.hpp` | a handle, and the Lua stack | copy, assign; push, get, pop, pick, grab, place, clear | values come back in order; library calls leave the stack as they found it |
| `table.hpp`, `_table.hpp`, `detail/table_traits.hpp` | iterators: a frame of three slots each | get, set, subscript, begin, ++, end | every string key is visited once, also in nested loops and past exceptions |
| `table_reference.hpp` | a cached value, its table and key | convert, subscript, assign | what it converts to is what the table holds |
| `function.hpp`, `detail/function_traits.hpp` | none | call with all forms of results; a C++ function as a Lua closure | arguments and results are balanced and arrive; errors become exceptions |
| `_lua.hpp` | globals of one state | load a source or a file, make tables | as above |
| `metatable.hpp`, `user_def.hpp` | static tables per class: names, constructors, properties, methods, operators, shared by all Lua states | define, declare, build, expose, reset | names are live and tell classes apart; a reset forgets what it should; a property is found under its name; a call runs a function that fits |
| `detail/user_traits.hpp`, `user_prop.hpp`, `user_method.hpp`, `user_ctor.hpp`, `operators.hpp` | userdata: values, pointers, pointers to const | push, get, inspect; properties, methods, constructors, operators | values are copies; const objects are not written; no dead object is reached |
| `detail/type_traits.hpp`, `primitive_traits.hpp`, `util.hpp`, `type.hpp` | none | conversions of numbers, strings, containers | what is read is what was written, within ranges; a string that is read lives as long as it is used |

How the parts meet: every object of the library holds a `state`, and a
`reference` only borrows one (it is made from a raw `lua_State *`); tables,
functions and table references are references; iterators hold a reference and a
frame of the stack that everything else uses as well; a userdatum finds its
metatable by a name that the static tables spell; Lua calls back into C++
through closures that look overloads up in those tables.

Tests (`src/test`) and benchmarks (`src/benchmarks`) only use the library. They
were read for how programs use it and for what they assert. Build files have no
behaviour.

## 2. Plan

Most important first: what every object of the library rests on, then what
scripts can do to objects, then what is read and written through it.

1. `StateHandles` with the abstract `SharedOwnership` - done, proved.
2. `References` with the abstract `RootedValues` - done, proved. It composes with
   (1) through hosts, objects that own a Lua state as `tlw::state` does.
3. `UserObjects` - done, proved.
4. `ClassRegistry` - done, proved.
5. `OverloadResolution` - done, proved.
6. `HostStack` - done, proved.
7. `TableReferences`: the cached value, assignment through it, chains `t[a][b]`,
   loops whose bodies write - done, proved.
8. `BorrowedStrings`, the lifetime of strings that are read - done, proved.
9. `MemberNames`, what looking members up leaves behind - done, proved.
10. `Conversions`, widths of numbers, and `Calls`, nested calls of the two
    languages - done, proved.

The detailed specifications of (1) and (2) are proved to implement the abstract ones.
What is left to model-check only is the liveness of loops.

## 3. Modules

`StateHandles`. `alloc` are the holders on the heap, `ref_count` and `lstate` their
members, `holder` the pointer of each handle that is `live`, and `lua` whether a
Lua state is open. One action per special member function, on any handle,
including self-assignment; each does the whole function, `invalidate()` of the old
holder included. `fault` is raised when freed memory is read. The handles in `Stacks` are
members of a `tlw::stack`, whose copies are other ones: they look at `other` first,
and where it is invalid an assignment does nothing and a copy keeps the Lua state
that its member was made with.

`SharedOwnership`. What (1) promises: a Lua state has a set of owners and is
closed when the set becomes empty; nothing owns a foreign state.

`References`. `at` and `idx` are the members of each reference that is `alive`,
`registry` the slots of each Lua state, which are handed out again, and `owners`
the handles that own a state: those inside references that were made from a
handle, and those of hosts, the other objects of the program. References that are
read from the stack only borrow. Objects are destroyed in any order.
`operator=(const reference &)` moves its old value away before it looks at
`other`, as in the code.

`RootedValues`. What (2) promises: a reference names a Lua value and keeps it
alive, however the slots are numbered.

`UserObjects`. `object` is storage that holds a C++ object, the program's, the
heap's or the block of a userdatum; `datum` the userdata with class, kind and
address; `variables` and `closures` are what Lua code reaches. The program and
the script take turns (`running`), the collector runs at any time. Two classes,
one with a property of the other and a property that is a pointer, stand for all: one
level of nesting is what it takes to have a pointer into another userdatum. A userdatum made by reading a
nested property has the address of the outer object. `careful`, which is chosen at the
start and never changes, restricts the program to the six rules at the head of the
module, which the library relies on and nowhere writes down. A method of a value works
on a C++ copy, an object of its own with the home `temp` that dies with the call, and
may return its address. A property that is a pointer (`link`) is pushed as it is, not
const, whatever it was read through. What `C.new` makes is an object like those of the
program, which may delete it at any time.

`ClassRegistry`. `name`, `derived`, `known`, `pointed` are the four static names
of a class, in string literals or in heap buffers (`buffer`); `declared` is the
contents of the static tables. `define`, the declarations that follow it,
`build`, the function that `build` returns, and `reset` are actions, and so is
`inspect()`, which compares names that may be freed or null. A `careful` program
uses a class only where it is known and exposed.

`MemberNames`. One table of properties, `getters`, whose keys are views of strings:
literals of the program, or of the script whose lookup entered the name. `live` and
`bytes` are the memory of Lua's strings, which is used again after `Collect`; the
same action stands for closing a Lua state, after which the static table goes on.
`HashFirst` is whether the map compares stored hashes before texts, which libstdc++
does for large tables only.

`OverloadResolution`. The overload tables of one class, filled in any order, and
as pure operators the choice that `overloaded_ctor`, `overloaded_method` and
`overloaded_operator` make. Parameters accept Lua types as `inspect` does. `target` is
the function that each registered method type runs, which a second declaration of the
same type and name replaces.

`TableReferences`. `field` are the entries of tables, `ref` the members of each
`table_reference`, `held` the objects of `tlw::table` and `loop` the frame of a
range-based for. `via` and `stale`, kept for the properties, say which entries the
expression went through that made a reference, and whether one of them was written
since. Scripts write as well. The implicit copy assignment between references of one
type is an action of its own, as it is in C++: it copies the object, `via` and all, and
writes nothing.

`BorrowedStrings`. `heap` are the strings that Lua has, `stack` and `place` what holds
them, `view` the variables of type `const char *`, each with the place that keeps its
string, if one does. Reading a number makes it a string; reading anything else gives a
null pointer, which passes on until something is made of it, such as a std::string. A
step that allocates lets the collector take any strings that
nothing holds. A C++ function has a frame (`base`) that is emptied before Lua
copies what it returns. A `careful` program keeps the four rules at the head of the
module.

`Calls`. `frames` are the functions that run, C++ and Lua in turn, each C++ one with
its stack. It takes its parameters one by one (`TakeParameter`), in the order that
`rightToLeft` says, for compilers differ in it; a Lua function is called through a form
of `tlw::function`, and its results, which `got` has, are read one by one from the top
of the stack of the caller (`ReadResult`), before the call pops what it thinks is there
(`EndCall`). Parameters and results are scalars, containers, and arrays, which may be
smaller than the table: reading a container pops the slot on top, and an array that is
full leaves a key there. Errors and exceptions go to the innermost protected call; what
they unwind is part of one action.

`Conversions`. A number goes into Lua from one type and out as another. `Cast` is the
cast of C++: where a value cannot be represented, any of the results that processors
give. Widths are constants, in the proportions of the real ones. Doubles beyond the
range of float are left out.

The operators of `MemberNames`, `Calls` and `Conversions` have names of their own, such
as `CallsNext`, where other modules have `Next`, so that one proof module can extend
several models.

`HostStack`. `stack` is the Lua stack, `loops` the iterators in scope; `own` is
what the program believes it has on the stack, and `damage` the outermost loop
whose body disturbed the stack, both kept for the properties. Loops are
range-based: they nest, and end by exhaustion, by break or by an exception that
leaves any number of them. `FairSpec` adds that bodies end. Calls that leave the stack as it was do not appear,
except function calls, whose form decides. After the stack was disturbed outside
of all loops the model only follows the program to `clear()`.

Mistaken forms of some definitions stand next to them, marked `(Mistake: ...)`;
no specification uses them. They document which change of the code a property
notices.

## 4. Runs

| run | checks | bounds |
|---|---|---|
| `state_handles` | counts, open exactly while owned, one cause of faults, refinement of `SharedOwnership` | 3 states and 2 stacks, 3 holders, 2 owned Lua states and a foreign one |
| `references` | one owner per slot, owners keep states open, crashes of borrowers only, what a throwing assignment loses, refinement of `RootedValues` | 3 references, 2 hosts, 2 states, 4 slots, 2 values |
| `user_objects` | private copies, three causes of dangling, const correctness but for pointer properties, the six rules suffice | storage for 2 objects, 3 userdata, 2 values, 1 closure; any program and careful ones |
| `class_registry` | ownership of names, operators in use go on working; for careful programs, a userdatum passes for its own class only and no freed or null name is read | 2 classes of which one is renamed, 3 buffers, 1 Lua state, 1 userdatum |
| `unknown_classes` | violated, see below | the same |
| `overload_resolution` | what runs fits, what fits runs, declaring more changes neither what a call resolves to nor, unless that method is declared again, the function that runs | 3 registrations, 2 parameters, 2 functions |
| `host_stack` | own values, nested loops, loops end if their bodies do | 2 loops, 3 keys, 2 own values, 7 slots; fair |
| `member_names` | wrong answers have a cause, single entries | 2 names, 3 addresses, 4 entries; hashes compared |
| `table_references` | what a reference converts to, for how long; what each assignment to it writes, and which one writes nothing | globals and 2 tables, 3 entries, of which 2 of one table, 2 references, 1 table object, 3 of these and the loop at once, chains of 2 |
| `borrowed_strings` | which pointers may dangle, the four rules suffice | 3 strings, 1 place, 2 pointers, 3 slots; any program and careful ones |
| `calls` | which arguments and results arrive, balanced calls leave the stack as it was, causes of underflow and of wild `lua_next` | 4 nested calls, 2 values passed or returned, 2 prototypes and 6 forms with containers and arrays before and after scalars, either order of arguments |
| `conversions` | exact numbers are kept, others stay near | int of 16 values, long of 256, doubles exact to 64, floats to 8 |

What is proved besides, as theorems for all instances, the runs do not repeat: the type
invariants of the modules that have proofs, `ForeignNeverClosed`, `KnownNamesRead`,
`GetterIsOwn` and the `FaultHasCause` of `BorrowedStrings`.

The bounds. Three states give a copy of a copy and a bystander, two stacks one that
is assigned the other, and three holders let a freed one be reused. Three references, with four slots, do the same for
slots, and two hosts let one state close while the other lives. Two cells and
three userdata give a value, a pointer into it and a pointer to const of the same
object, an object whose pointer leads to another one, and a value with the copy that a
method works on; a closure keeps a userdatum and is called, as any other would be.
Three buffers let a freed one go to another class while both are named.
Three registrations have one overload shadow another with a third between. Seven
slots hold two nested loops and a value in between; functions pop up to three
slots too many, as many as a frame has. The values of the program are alike there: no
operation exchanges two slots, and what a slot is otherwise the model tells apart. Three addresses let the memory of a name be
used for the other one while a third string lives; four entries are two of each name.
For table references, an entry of the globals and two of a table make chains, also of a
table that has itself, and loops with a key that was delivered and one to come; the
other table takes the place of the first. Three strings and two pointers
let one string go while another is read, from a slot or from a place; three slots hold a frame above a value and a
slot to remove below the top. Four nested calls are C++, Lua, C++ and Lua again, so
that an error crosses a C++ function on its way. The widths of numbers keep the order
int < exact double < long, with as many roundings above as there are powers of two.
Registrations, entries, subscripts of a chain, nested calls, slots, own values and the
keys a damaged loop may see again are capped by guards (`MaxRegistered`, `MaxEntries`,
`MaxClosures`, `MaxVia`, `MaxScope`, `Entry`, `MaxDepth`, `MaxArgs`, `MaxValues`, `MaxSlots`, `MaxOwn`, `Goes`).

Deadlock is not checked where the model ends by design: after a wild access
(`fault`), or when every registration was used. In `StateHandles` and
`References` it is.

Fairness is assumed in one run, `host_stack`. The library does nothing unless it is called, and no
call waits, so that nearly everything it promises is safety. What must end is a
range-based for: `LoopsGoOn` says that a loop that is entered again and again moves its
iterator again and again, because the for statement does so after each body, and that
a loop whose iterator has ended is closed. It is strong fairness, as the body of a
loop may hold whole loops, which take the program elsewhere in between. The bound on
the keys that a loop sees does not help the property: a loop that reaches it is stuck.

What the code gets wrong:

 - `unknown_classes`: `README.md:202` has pointers of classes that are not known
   become light userdata. After `meta_table_registry<T>::reset()` the names
   registered for `T *` and `const T *` still point at the deleted buffers, and a
   push reads them.
 - `test/user/user_test.h:40` asserts that a test ends with an empty stack.
   `function<void(args...)>` pops its arguments a second time. The model has the same
   of container reads and of tuples (`ReadContainer`, `Call`). `OwnValuesStand` excuses
   these pops, and bounds what they damage. Which calls are safe from them
   `BalancedCallsKeepStack` says: `function<std::vector<T>()>` is not, as it pops its
   one result twice.
 - `lua["a"] = lua["b"]`, an assignment between table references of one type, writes
   nothing: C++ takes the implicit copy assignment. `AssignsWhatIsNamed` has it as the
   one exception.
 - A method that returns a pointer to its own object, called on a value, gives Lua the
   address of the copy it worked on, which is gone (`DanglingHasCause`).
 - Const does not reach through pointer properties: reading one through a pointer to
   const gives a pointer that is not, and assigning one forgets the const of the pointer
   assigned (`ConstObjectsUntouched` says what is left).
 - `std::string` is made of what `lua_tostring` returns, which is null for a table or
   nil; rule 4 of `BorrowedStrings` is what a program has to do instead.
 - `operator=` of `tlw::stack` ignores an empty stack, so that `s = tlw::stack()`
   (`test/user/user_test.h:39`) keeps the Lua state that it should let go.
 - A function that returns a tuple reads each result from index -1, so that all of
   them are the last one, unless a container among them pops its slot
   (`ResultsArrive` of `Calls` says which elements are right);
   `src/benchmarks/classic.h:387` asserts three different ones of the script that
   `src/benchmarks/impl.h:184` calls.
 - `README.md:198` lists `unsigned long` among the supported types, and
   `test/user/cfunction_test.cpp:37` asserts a round trip. Beyond 2^53 it is rounded,
   and beyond 2^63 it changes; `ExactIsKept` and `LongIsNear` are what does hold.
 - A script that asks for a name enters it into the table of properties under a key in
   Lua's memory. A property that is declared later takes over that entry, and is lost
   with the string; `WrongHasCause` allows this and nothing else.
 - In `__index::get` a name that is no property is given `overloaded_method::invoke`,
   which is never null, so that the message "no such field" (`user_def.hpp:249`) is
   never raised.
 - Assigning the only handle of a holder to itself reads freed memory
   (`OnlySelfAssignFaults` allows this and nothing else).
 - A reference that is read from the stack does not keep its Lua state open
   (`OnlyBorrowersCrash`).

## 5. Proofs

| proof module | proves about |
|---|---|
| `StateHandlesProofs` | `StateHandles`, and that it implements `SharedOwnership` |
| `ReferencesProofs` | `References`, and that it implements `RootedValues` |
| `ClassRegistryProofs` | `ClassRegistry` and `MemberNames` |
| `UserObjectsProofs` | `UserObjects` |
| `HostStackProofs` | `HostStack` |
| `TableReferencesProofs` | `TableReferences` |
| `BorrowedStringsProofs` | `BorrowedStrings` |
| `FunctionsProofs` | `OverloadResolution`, `Calls` and `Conversions` |

They prove, for any values of the constants that meet the named assumptions, the type
invariants and the properties listed in `PROJECT.json`: all that the runs check, but for
`LoopsEnd` and the one that is violated. The argument is an inductive invariant each.

For handles, the count of a holder has the sign of its kind and its absolute value
is the number of handles that point at it; a holder is allocated exactly while one
does; and two holders never own the same open state. The second part is needed to
know that `invalidate()` of the last handle is the last access, the third that
closing one holder's state leaves the others' open. Cardinalities of the set of
handles change by one with each assignment, which a lemma states once.

That the handles implement `SharedOwnership` follows from the same invariant. The
abstract owners of a state are the handles whose holder has it with a positive count.
The step that is not obvious is `invalidate()`: it closes exactly the states that this
handle alone owned, since a count of one means that no other handle points at the
holder and no other holder owns its state. Assigning the only handle of a holder to
itself is a step of the abstract owner that lets go: the fault comes after that.

For references, the slots in use in an open state are each named by one living
reference, a state is open exactly while something owns it, and a reference owns
no other state than the one its slot is in; what is needed besides is that an
empty reference names no slot and that nothing refers to a state before it is
opened. So releasing a slot frees what no other reference names, and a call on a
closed state comes from a reference that only borrowed it.

References implement `RootedValues` by what their slots hold. Giving back a slot takes a
value from no other reference, and taking a new one gives it to no other, because slots
in use have one owner each; closing a state strands the references in it, and those
borrow it, because an owner would have kept it open. `ThrowLosesTargetOnly` is about
steps: the assignment that throws has moved its old value away and touched nothing else.

For classes, `ClassRegistryProofs` does the same with any number of classes, names
and buffers. That no class has a name of another (an assumption, as programs must
see to it) makes the contents of a live buffer tell whose it is: what `reset()`
deletes is spelt like its own class, so neither the derived names of another class
nor the registered ones of a known class point at it, and what `define()` takes
was free, so they do not point at that either. A userdatum keeps the name it was
pushed by, which is one of the names its class ever has; a name that `inspect()`
compares it with is one of the class asked for.

For userdata, every operation is one of a few kinds of change: a live object is
written, an object is made or destroyed, a copy or a pointer is pushed, a
userdatum ends, dead storage is given back. `UserObjectsProofs` states the
invariant over objects, userdata and the set of those that Lua reaches, proves once
that each kind of change preserves it, and takes every action to one or two of
them. The invariant has values and blocks correspond one to one (`Fit`); every address,
in a userdatum or in an object, be that of storage in use or null (`Sound`); and what
points into the block of a value be a pointer to its nested part (`Part`), which neither
a pointer to the value as such nor a pointer property of another class is. For careful
programs it is not enough that what Lua and objects point to is alive; what is needed is
that Lua also reaches the values that they point into, so that the collector does not
take them (`Secure`). That const objects are kept is shown of steps: a part that is
reached through a pointer to const is const, what a pointer property yields was led to
already, and everything else that is pushed goes to storage that was not in use.

For overloads, the invariant only says that the rows of the tables hold what their
numbers say. The properties are about calls, and follow from one fact: what
`SelectInSeq` returns is the one index whose parameters accept the arguments with none
before it that do. That there is such an index is the least-number principle, which the
library has as well-foundedness of `<`. An overload that is added at the end leaves that
index as it was, and the function of a method type is that of the last declaration of
that very type.

For names of members, an entry whose key Lua has not freed spells the name it was made
for, so that a lookup of that name finds it and makes no second one. What may be wrong
then is an entry that lost its key, and such an entry stays until the class is reset:
the proof names it as the cause, whether hashes are compared first or not. That a getter is found under its own name only needs
the hash, which the entry keeps when its text has changed.

For strings, the invariant is that Lua has every string that a slot or a place holds,
and that every pointer with a place is to the string there. What moves, replaces or
removes a value therefore has to let go of just the pointers into it; a lemma says so
of any set of places, and another one what a step of the collector does to pointers
without one. Only those that were adrift can be to freed memory. A null pointer has no
place, and steps that make something of a pointer ask a careful program whether it is null. The theorem about
careful programs then has one step per action that reads.

For table references, the invariant is about each object and the loop alone: the entry
at the end of a path has the value that was read unless it was written since, and each
entry before it has the table that the path goes on with. A write marks every object
with that entry in its path; a new table was named by no path; and a chain goes on with
a clean path only from an object with nothing stale, whose value is therefore still
there. What an assignment writes is a statement about steps: the entry at the end of the
path, as long as each entry before it still leads on, or nothing if the other side is a
table reference of the same type. The bound on entries is any set of tables and keys.

For the host stack, the invariant says where everything is as long as no loop body has
disturbed the stack: the values of the program at the depths it has for them, and each
loop in the three slots above the values and the loops that were there when it was
entered. The number of slots is then the number of values and three for each loop. A
body that pops too much breaks this from the loop it runs in on, and nothing below: the
invariant keeps the frames up to the one that `damage` names, and the size only while
nothing is damaged. Leaving loops, at their end, by break or by an exception, takes the
frames off that it should, whatever was lost above. What a loop delivers follows from
its frame: the key in it is the last one that it gave, and the ones to come are those
after it.

For calls, the frames take turns, and every Lua function was called with protection, so
that an error always has a frame of C++ to go to. What the stack of a C++ function looks
like while it takes its parameters is the core of the invariant: without a container
among those taken it is what it was; from the right, the slots up to the next parameter
are still the arguments, since a container is read well only where there is a table, and
what it pops lies above. While results are read, the stack of the caller is what was
there before the call and what `lua_pcall` was asked for, as long as no container was
read. `BalancedCallsKeepStack` then is arithmetic: as many slots as were made are popped.

For conversions, the invariant says that what Lua has is close to what was given: the
number itself up to `Exact`, and up to `Limit` a double next to it that is in the range
of long. What is rounded is a multiple of the least unit that reaches it, and what is
such a multiple already is not rounded, for of two powers of two one divides the other.
The margin of `Limit` is enough because half a unit is less than `Exact` as long as
`LongMod` is at most twice its square, as 2^64 is for 2^53.

Assumptions: sets of handles are finite, sentinels lie outside the sets they extend,
bounds are natural numbers, and for numbers: units are powers of two with all lesser
ones, floats are doubles, longs are in the range of doubles, and doubles of the model in
that of floats. Each is a named `ASSUME` that the runs evaluate.

Only model-checked: `LoopsEnd`, since liveness under fairness is out of the prover's
reach (what it needs besides fairness is proved, as `LoopsAreFinite`: no loop delivers
more keys than there are). `ENABLED` is not needed. No module has `RECURSIVE` operators,
with which the prover loses its arithmetic.

## 6. Not modelled

 - The bytes of strings and the texts of messages: a string is a value.
 - Metatables of tables, the entry `_G` of the globals, and what Lua's own library
   does to tables.
 - `get_or_default` and `get_all`, which convert what a subscript reads, and the contents
   of containers that are pushed.
 - The class table that exposing a class returns, `lua::metatable<T>()`, which
   returns nothing for a new metatable and is used nowhere, and resetting the registry
   of a pointer type, which only tests do.
 - Several Lua states sharing references, which Lua forbids; custom constructors, whose
   registration lacks a return statement.
 - Fractions of numbers, infinities and NaN.
 - Failing allocations, in C++ or in Lua: the library does not handle them.
 - The tests, the benchmarks and the build files, see the inventory.
