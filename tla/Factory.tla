------------------------------- MODULE Factory --------------------------------
(***************************************************************************)
(* ModuleFactory: from the registered types and the files of a             *)
(* configuration to objects, ports and connections.  A call of             *)
(* instantiateAll() goes through phases,                                   *)
(*     load, create, groups, internal, ports, connect, end                 *)
(* and is a frame of the stack, since a SimModule with a configuration of  *)
(* its own makes its factory call instantiateAll() in turn.                *)
(*                                                                         *)
(* An end of a connection is a pattern for object names (with wildcards or *)
(* a regular expression), a group, or "module.port".  No object has a name *)
(* that "module.port" matches as a pattern: its dot stands for any one     *)
(* character, and a match would connect nothing, for it has no port.       *)
(***************************************************************************)
EXTENDS Integers, Sequences, FiniteSets, SequencesExt, FiniteSetsExt

CONSTANTS
  ObjectTypes, ModuleTypes,  \* the names types are registered under
  PortTypes,    \* the types whose constructors make a PortManager
  Files,        \* the names of files
  FileSystems,  \* the choices of what the files contain, see below
  MaxDepth,     \* bound: open includes, or calls, at which the C stack is full
  None          \* a key that is absent, an empty string

ASSUME DeepEnough == MaxDepth \in Nat /\ MaxDepth > Cardinality(Files)

(***************************************************************************)
(* A file contains                                                         *)
(*   [kind |-> "object", include |-> a file or None, nested |-> the files  *)
(*    that objects inside it include, in the order they are met,           *)
(*    keys |-> a function from some of "modules", "groups", "connections", *)
(*    "outputs" and "inputs", to what they are with those nested includes] *)
(*   [kind |-> "string", file |-> the file it names], or is missing.       *)
(* An entry of "modules" is [name, type, layout, config], one of           *)
(* "connections" is [src, dst, exclude], one of "outputs" and "inputs" is  *)
(* [external, internal].  An end "group:g" of a connection names no module *)
(* and no port: group names have no dots either.  A group that is called   *)
(* "" has a value other than None for its name.                            *)
(***************************************************************************)
IsList(s) == s \in Seq(ToSet(s))
IsEnd(end) ==
  end.group # None => end.module = None /\ end.port = None /\ end.names = {}
IsContent(keys) ==
  /\ "modules" \in DOMAIN keys =>
       /\ IsList(keys["modules"])
       /\ \A e \in ToSet(keys["modules"]) :
            e.layout \in BOOLEAN /\ e.config \in Files \cup {None}
  /\ "groups" \in DOMAIN keys => \A g \in DOMAIN keys["groups"] :
       g # None /\ IsList(keys["groups"][g])
  /\ "connections" \in DOMAIN keys =>
       /\ IsList(keys["connections"])
       /\ \A c \in ToSet(keys["connections"]) : IsEnd(c.src) /\ IsEnd(c.dst)

ASSUME FinitelyMany == IsFiniteSet(Files)
ASSUME Format ==
  \A fs \in FileSystems :
    /\ DOMAIN fs = Files
    /\ \A f \in Files :
         \/ fs[f].kind = "missing"
         \/ fs[f].kind = "string" /\ fs[f].file \in Files
         \/ /\ fs[f].kind = "object"
            /\ fs[f].include \in Files \cup {None}
            /\ fs[f].nested \in Seq(Files)
            /\ IsContent(fs[f].keys)

VARIABLES
  files,            \* what the files contain, one of FileSystems
  object_registry, module_registry,
  groups,           \* ModuleGroup::getGroups(), one for all factories
  stack,            \* the calls of instantiateAll() under way
  outcome           \* idle, running, done, threw, crashed or overflow

vars == <<files, object_registry, module_registry, groups, stack, outcome>>

EmptyFunction == [x \in {} |-> None]

\* A call of loadAndInclude() for f: the next of its includes to load, and whether
\* what it returns becomes part of the top level of the configuration.
Opening(f, top) == [file |-> f, next |-> 1, top |-> top]

\* instantiateAll() has been called with the name of the file f.  The files opened
\* are f, the one it includes at its top level, the one that includes, and so on.
Call(f) ==
  [opened |-> <<f>>, loading |-> <<Opening(f, TRUE)>>,
   by_main |-> FALSE, config |-> EmptyFunction, phase |-> "load", next |-> 1,
   objects |-> EmptyFunction, modules |-> EmptyFunction,
   upstream |-> <<>>, downstream |-> <<>>, pairs |-> <<>>]

Init ==
  /\ files \in FileSystems
  /\ object_registry = {}
  /\ module_registry = {}
  /\ groups = EmptyFunction
  /\ stack = <<>>
  /\ outcome = "idle"

Register(t) ==
  /\ outcome = "idle"
  /\ \/ t \in ObjectTypes /\ object_registry' = object_registry \cup {t}
        /\ UNCHANGED module_registry
     \/ t \in ModuleTypes /\ module_registry' = module_registry \cup {t}
        /\ UNCHANGED object_registry
  /\ UNCHANGED <<files, groups, stack, outcome>>

Unregister(t) ==
  /\ outcome = "idle"
  /\ \/ object_registry' = object_registry \ {t} /\ UNCHANGED module_registry
     \/ module_registry' = module_registry \ {t} /\ UNCHANGED object_registry
  /\ UNCHANGED <<files, groups, stack, outcome>>

ClearAllTypes ==
  /\ outcome = "idle"
  /\ object_registry' = {}
  /\ module_registry' = {}
  /\ UNCHANGED <<files, groups, stack, outcome>>

\* A caller of instantiateAll() gives the name of a file.
Instantiate(f) ==
  /\ outcome = "idle"
  /\ stack' = <<Call(f)>>
  /\ outcome' = "running"
  /\ UNCHANGED <<files, object_registry, module_registry, groups>>

\* REGISTER_OBJECT and REGISTER_MODULE.
RegisterAll == object_registry' = ObjectTypes /\ module_registry' = ModuleTypes

(***************************************************************************)
(* main(): it registers all types and loads the file f itself, to hand the *)
(* content to instantiateAll(), see Loaded.                                *)
(***************************************************************************)
Main(f) ==
  /\ outcome = "idle"
  /\ RegisterAll
  /\ stack' = <<[Call(f) EXCEPT !.by_main = TRUE]>>
  /\ outcome' = "running"
  /\ UNCHANGED <<files, groups>>

Top == Last(stack)
Running(phase) == outcome = "running" /\ Top.phase = phase
Replaced(frame) == Append(Front(stack), frame)
Stop(how) == outcome' = how /\ UNCHANGED <<groups, stack>>
Go(frame) == stack' = Replaced(frame) /\ UNCHANGED <<groups, outcome>>

\* What the frame's configuration has under key; nothing if it is absent.
Listed(frame, key) ==
  IF key \in DOMAIN frame.config THEN frame.config[key] ELSE <<>>

\* What the sequence s has at the positions in I, in the same order.
Nth(I, n) == CHOOSE i \in I : Cardinality({j \in I : j < i}) = n - 1
Picked(s, I) == [n \in 1 .. Cardinality(I) |-> s[Nth(I, n)]]

\* The function f with k mapped to v; and with the keys it lacks from g.
Put(f, k, v) == [x \in DOMAIN f \cup {k} |-> IF x = k THEN v ELSE f[x]]
Overlay(f, g) == [x \in DOMAIN f \cup DOMAIN g |-> IF x \in DOMAIN f THEN f[x] ELSE g[x]]

\* Faulty variant of Included: the file includes itself again.
IncludedItself(f) == IF files[f].include = None THEN None ELSE f

\* The file that f includes, and the keys it gives itself.
Included(f) == files[f].include
OwnKeys(f) == IF files[f].kind = "object" THEN files[f].keys ELSE EmptyFunction

\* The includes of a file in the order of processIncludes: its own, then the nested.
Includes(f) ==
  IF files[f].kind = "object"
  THEN (IF Included(f) = None THEN <<>> ELSE <<Included(f)>>) \o files[f].nested
  ELSE <<>>

\* JsonIncluder::loadAndInclude goes on to the next include of the last open file.
LoadInclude ==
  LET e == Last(Top.loading)
      f == Includes(e.file)[e.next]
      top == e.top /\ e.next = 1 /\ Included(e.file) # None
  IN  /\ Running("load")
      /\ e.next <= Len(Includes(e.file))
      /\ IF Len(Top.loading) < MaxDepth
         THEN Go([Top EXCEPT !.loading = Append(Append(Front(@), [e EXCEPT !.next = @ + 1]),
                                                Opening(f, top)),
                             !.opened = IF top THEN Append(@, f) ELSE @])
         ELSE Stop("overflow")

\* The last open file is there, with all its includes.
AllIncluded(e) == e.next > Len(Includes(e.file)) /\ files[e.file].kind # "missing"

\* It is merged into the file that includes it.
LoadReturn ==
  /\ Running("load")
  /\ Len(Top.loading) > 1
  /\ AllIncluded(Last(Top.loading))
  /\ Go([Top EXCEPT !.loading = Front(@)])

\* What the files opened have at the top level, merged from the inside out.
Merged(opened) ==
  FoldRight(LAMBDA f, included : Overlay(OwnKeys(f), included), opened, EmptyFunction)

(***************************************************************************)
(* The file is loaded with all its includes.  instantiateAll() goes on     *)
(* with an object.  What main() hands to it is converted to the name of a  *)
(* file, so that an object throws, and a string is a file to load.         *)
(***************************************************************************)
Loaded ==
  LET first == files[Head(Top.opened)]
  IN  /\ Running("load")
      /\ Len(Top.loading) = 1
      /\ AllIncluded(Last(Top.loading))
      /\ IF Top.by_main # (first.kind = "string") THEN Stop("threw")
         ELSE IF Top.by_main THEN Go(Call(first.file))
         ELSE Go([Top EXCEPT !.config = Merged(Top.opened), !.loading = <<>>,
                             !.phase = "create"])

LoadMissing ==
  /\ Running("load")
  /\ files[Last(Top.loading).file].kind = "missing"
  /\ Stop("threw")

Load == LoadInclude \/ LoadReturn \/ Loaded \/ LoadMissing

\* Phase create: the objects and modules after the entry e.
Created(e) ==
  IF e.type \in object_registry \cup module_registry
  THEN Put(Top.objects, e.name, e.type) ELSE Top.objects
CreatedModules(e) ==
  IF e.type \in module_registry THEN Put(Top.modules, e.name, TRUE) ELSE Top.modules

Create ==
  LET e == Top.config["modules"][Top.next]
  IN  /\ Running("create")
      /\ Top.next <= Len(Listed(Top, "modules"))
      /\ IF e.name = None \/ e.type = None THEN Go([Top EXCEPT !.next = @ + 1])
         ELSE IF e.layout /\ e.name \notin DOMAIN Created(e) THEN Stop("crashed")
         ELSE Go([Top EXCEPT !.objects = Created(e), !.modules = CreatedModules(e),
                             !.next = @ + 1])

\* A phase that goes through a list has come to its end.
Following == [create |-> "groups", internal |-> "ports", connect |-> "end"]
ListOf == [create |-> "modules", internal |-> "modules", connect |-> "connections"]

NextPhase ==
  \E phase \in DOMAIN Following :
    /\ Running(phase)
    /\ Top.next > Len(Listed(Top, ListOf[phase]))
    /\ Go([Top EXCEPT !.phase = Following[phase], !.next = 1])

\* ModuleGroup::define replaces a group of the same name, whoever defined it.
Define(definitions) == Overlay(definitions, groups)

DefineGroups ==
  /\ Running("groups")
  /\ groups' = IF "groups" \in DOMAIN Top.config THEN Define(Top.config["groups"])
               ELSE groups
  /\ stack' = Replaced([Top EXCEPT !.phase = "internal"])
  /\ UNCHANGED outcome

\* Faulty variant of Sought: the entry is looked for and not inserted.
SoughtOnly(name) == Top.modules

\* module_instances[name]: a null pointer, FALSE, is inserted for a new name.
Sought(name) ==
  IF name \in DOMAIN Top.modules THEN Top.modules ELSE Put(Top.modules, name, FALSE)

(***************************************************************************)
(* Phase internal.  SimModule::instantiate hands the content of its file   *)
(* to instantiateAll(), which throws unless that is a string.              *)
(***************************************************************************)
Internal ==
  LET e == Top.config["modules"][Top.next]
      advanced == [Top EXCEPT !.modules = Sought(e.name), !.next = @ + 1]
      isModule == e.name \in DOMAIN Top.modules /\ Top.modules[e.name]
  IN  /\ Running("internal")
      /\ Top.next <= Len(Listed(Top, "modules"))
      /\ IF e.config = None THEN Go([Top EXCEPT !.next = @ + 1])
         ELSE IF e.name = None THEN Stop("threw")
         ELSE IF ~ isModule \/ files[e.config].kind = "missing" THEN Go(advanced)
         ELSE IF files[e.config].kind = "object" THEN Stop("threw")
         ELSE IF Len(stack) >= MaxDepth THEN Stop("overflow")
         ELSE /\ stack' = Append(Replaced(advanced), Call(files[e.config].file))
              /\ UNCHANGED <<groups, outcome>>

\* The end names a port of something that the module map has a null pointer for.
ThroughNull(frame, end) ==
  /\ end.port # None
  /\ end.module \in DOMAIN frame.modules
  /\ ~ frame.modules[end.module]

\* A port is made for the end of a connection.
MakesPort(frame, end) ==
  /\ end.port # None
  /\ end.module \in DOMAIN frame.objects \ DOMAIN frame.modules
  /\ frame.objects[end.module] \in PortTypes

\* The ports made for the ends in a list.
PortsFor(frame, ends) == Picked(ends, {i \in DOMAIN ends : MakesPort(frame, ends[i])})

MakePorts ==
  LET connections == Listed(Top, "connections")
      srcs == [i \in DOMAIN connections |-> connections[i].src]
      dsts == [i \in DOMAIN connections |-> connections[i].dst]
  IN  /\ Running("ports")
      /\ IF \E i \in DOMAIN connections :
              ThroughNull(Top, connections[i].src) \/ ThroughNull(Top, connections[i].dst)
         THEN Stop("crashed")
         ELSE Go([Top EXCEPT !.downstream = PortsFor(Top, srcs), !.upstream = PortsFor(Top, dsts),
                             !.phase = "connect"])

(***************************************************************************)
(* Phase connect: an end of a connection stands for the members of a       *)
(* group, or for the objects it matches as a pattern, without a port.      *)
(***************************************************************************)
Plain(module, port) ==
  [group |-> None, regex |-> FALSE, names |-> {}, module |-> module, port |-> port]

\* Wildcard::match; without wildcards a pattern matches its own text.
WildcardMatch(end, name) == name \in end.names \/ (end.port = None /\ name = end.module)

\* RegexMatcher::match.  An ill-formed regular expression has no names.
Matches(end, name) == IF end.regex THEN name \in end.names ELSE WildcardMatch(end, name)

\* ModuleGroup::resolve; an unknown group is empty.
Resolve(group) == IF group \in DOMAIN groups THEN groups[group] ELSE <<>>

Expanded(frame, end) ==
  IF end.group # None THEN Resolve(end.group)
  ELSE LET matched == SetToSeq({n \in DOMAIN frame.objects : Matches(end, n)})
       IN  [i \in DOMAIN matched |-> Plain(matched[i], None)]

\* Faulty variant of FilterExcluded: the list is ignored.
FilterExcludedNot(ends, excluded) == ends

FilterExcluded(ends, excluded) == Picked(ends, {i \in DOMAIN ends : ends[i] \notin excluded})

(***************************************************************************)
(* SimModule::parsePortConfigs: the ports that a module configured by f    *)
(* exposes.  A string has no "outputs" and no "inputs", and an object does *)
(* not get this far, see Internal: none.                                   *)
(***************************************************************************)
ParsePortConfigs(f) ==
  LET lists == {"outputs", "inputs"} \cap DOMAIN OwnKeys(f)
      listed == UNION {ToSet(OwnKeys(f)[k]) : k \in lists}
  IN  {x \in listed : x.external # None /\ x.internal # None}

\* SimModule::findInternalPath: what the module has exposed as the given port.
FindInternalPath(frame, end) ==
  LET configs == {e.config : e \in {x \in ToSet(Listed(frame, "modules")) :
                                     x.name = end.module /\ x.config # None}}
      exposed == UNION {ParsePortConfigs(f) : f \in configs}
  IN  {x.internal : x \in {y \in exposed : y.external = end.port}}

(***************************************************************************)
(* The port an end means, the last one made with its label; 0 is a null    *)
(* pointer.  What a module exposes is sought among the objects of the      *)
(* frame, not among those inside the module.                               *)
(***************************************************************************)
PortAt(frame, ports, end) ==
  LET labels == IF end.module \in DOMAIN frame.modules THEN FindInternalPath(frame, end)
                ELSE {end}
  IN  Max({0} \cup {i \in DOMAIN ports : ports[i] \in labels})

\* Faulty variant of Bound: no test for null pointers.
BoundUntested(pair) == TRUE

Bound(pair) == pair.src # 0 /\ pair.dst # 0

\* The PortPairs of a connection between the ends ss and ds, in their order.
Pairs(frame, ss, ds) ==
  LET pair(k) == [src |-> PortAt(frame, frame.downstream, ss[((k - 1) \div Len(ds)) + 1]),
                  dst |-> PortAt(frame, frame.upstream, ds[((k - 1) % Len(ds)) + 1])]
      all == [k \in 1 .. Len(ss) * Len(ds) |-> pair(k)]
  IN  Picked(all, {k \in DOMAIN all : Bound(all[k])})

Connect ==
  LET c == Top.config["connections"][Top.next]
      ss == FilterExcluded(Expanded(Top, c.src), c.exclude)
      ds == FilterExcluded(Expanded(Top, c.dst), c.exclude)
  IN  /\ Running("connect")
      /\ Top.next <= Len(Listed(Top, "connections"))
      /\ IF \/ \E s \in ToSet(ss) : ThroughNull(Top, s)
            \/ ss # <<>> /\ \E d \in ToSet(ds) : ThroughNull(Top, d)
         THEN Stop("crashed")
         ELSE Go([Top EXCEPT !.pairs = @ \o Pairs(Top, ss, ds), !.next = @ + 1])

Return ==
  /\ Running("end")
  /\ stack' = Front(stack)
  /\ outcome' = IF Len(stack) = 1 THEN "done" ELSE "running"
  /\ UNCHANGED groups

InstantiateStep ==
  /\ Load \/ Create \/ DefineGroups \/ Internal \/ MakePorts \/ Connect
     \/ NextPhase \/ Return
  /\ UNCHANGED <<files, object_registry, module_registry>>

Next ==
  \/ \E t \in ObjectTypes \cup ModuleTypes : Register(t) \/ Unregister(t)
  \/ ClearAllTypes
  \/ \E f \in Files : Instantiate(f) \/ Main(f)
  \/ InstantiateStep

Spec == Init /\ [][Next]_vars

-------------------------------------------------------------------------------
Outcomes == {"idle", "running", "done", "threw", "crashed", "overflow"}

(***************************************************************************)
(* Types: the objects of a frame have registered types, and its PortPairs  *)
(* are between ports that it has made.                                     *)
(***************************************************************************)
TypeOK ==
  /\ object_registry \subseteq ObjectTypes
  /\ module_registry \subseteq ModuleTypes
  /\ outcome \in Outcomes
  /\ outcome = "running" => stack # <<>>
  /\ \A i \in DOMAIN stack :
       LET frame == stack[i]
       IN  /\ frame.opened \in Seq(Files)
           /\ frame.phase = "load" =>
                frame.loading \in Seq([file : Files, next : Nat, top : BOOLEAN])
           /\ \A n \in DOMAIN frame.objects :
                frame.objects[n] \in object_registry \cup module_registry
           /\ \A k \in DOMAIN frame.pairs :
                /\ frame.pairs[k].src \in DOMAIN frame.downstream
                /\ frame.pairs[k].dst \in DOMAIN frame.upstream

(***************************************************************************)
(* The reference: what the files say, without the steps of the factory.    *)
(* The first of the opened files that has a key gives its value.           *)
(***************************************************************************)
Said(frame, key) ==
  LET holders == {i \in DOMAIN frame.opened : key \in DOMAIN OwnKeys(frame.opened[i])}
  IN  IF holders = {} THEN <<>> ELSE OwnKeys(frame.opened[Min(holders)])[key]

Entries(frame) == ToSet(Said(frame, "modules"))
Complete(e) == e.name # None /\ e.type # None
IsModule(frame, name) ==
  \E e \in Entries(frame) : Complete(e) /\ e.name = name /\ e.type \in module_registry

\* The object called name has ports: its last registered entry is of such a type.
HasPorts(frame, name) ==
  LET entries == Said(frame, "modules")
      made == {i \in DOMAIN entries :
                 /\ Complete(entries[i]) /\ entries[i].name = name
                 /\ entries[i].type \in object_registry \cup module_registry}
  IN  made # {} /\ entries[Max(made)].type \in PortTypes

Members(end) == IF end.group \in DOMAIN groups THEN ToSet(groups[end.group]) ELSE {}

Connections(frame) == ToSet(Said(frame, "connections"))

\* The port exists: some connection names it directly, and its object has ports.
Reachable(frame, end, ends) ==
  /\ end.port # None /\ end \in ends
  /\ HasPorts(frame, end.module) /\ ~ IsModule(frame, end.module)

\* The port is one that the end of a connection means: a member of the group, the
\* port named, or a port of an object that the pattern matches.
StandsFor(end, port) ==
  IF end.group # None THEN port \in Members(end)
  ELSE port = end \/ Matches(end, port.module)

\* The connection is for the pair of ports p, which it does not exclude.
IsFor(c, p) ==
  /\ StandsFor(c.src, p[1]) /\ p[1] \notin c.exclude
  /\ StandsFor(c.dst, p[2]) /\ p[2] \notin c.exclude

ConnectedPorts(frame) ==
  {<<frame.downstream[p.src], frame.upstream[p.dst]>> : p \in ToSet(frame.pairs)}

(***************************************************************************)
(* When instantiateAll() has come to its end, it has connected no ports    *)
(* but those that a connection is for.  And it has connected all members   *)
(* of groups on both sides of a connection, as the groups are defined last *)
(* by any factory, that are not excluded and whose ports exist.            *)
(***************************************************************************)
ConnectedAsSpecified ==
  Running("end") =>
    LET sources == {c.src : c \in Connections(Top)}
        targets == {c.dst : c \in Connections(Top)}
    IN  /\ \A p \in ConnectedPorts(Top) : \E c \in Connections(Top) : IsFor(c, p)
        /\ \A c \in Connections(Top) :
             \A p \in (Members(c.src) \ c.exclude) \X (Members(c.dst) \ c.exclude) :
               Reachable(Top, p[1], sources) /\ Reachable(Top, p[2], targets)
                 => p \in ConnectedPorts(Top)

\* A layout for an entry whose type is unknown, when no object has its name.
UnknownLaidOut(frame) ==
  LET entries == Said(frame, "modules")
  IN  \E i \in DOMAIN entries :
        /\ entries[i].layout /\ Complete(entries[i])
        /\ \A j \in 1 .. i : Complete(entries[j]) /\ entries[j].name = entries[i].name
             => entries[j].type \notin object_registry \cup module_registry

\* A port is named, directly or by a group, of a configured entry that is no module.
PortOfConfigured(frame) ==
  \E c \in Connections(frame) :
    LET ss == Members(c.src) \ c.exclude
        ds == IF ss = {} THEN {} ELSE Members(c.dst) \ c.exclude
        \* a pattern matches objects, so that there are sources
        patterned == IF \E n \in {e.name : e \in {x \in Entries(frame) : Complete(x)
                               /\ x.type \in object_registry \cup module_registry}} :
                          /\ Matches(c.src, n)
                          /\ Plain(n, None) \notin c.exclude
                     THEN Members(c.dst) \ c.exclude ELSE {}
    IN  \E end \in {c.src, c.dst} \cup ss \cup ds \cup patterned :
          /\ end.port # None
          /\ \E e \in Entries(frame) : e.config # None /\ e.name = end.module
          /\ ~ IsModule(frame, end.module)

(***************************************************************************)
(* Nothing validates a configuration (module_factory.cc), and this is when *)
(* a null pointer is used: if and only if there is a layout for an entry   *)
(* of an unknown type, or a connection names a port of an entry with a     *)
(* "config" that is no SimModule, be it a plain object or an entry of an   *)
(* unknown type, of which nothing was created.  No other mistake leads to  *)
(* one, and a configuration with these two never comes to its end.         *)
(***************************************************************************)
CrashesExplained ==
  /\ outcome = "crashed" => UnknownLaidOut(Top) \/ PortOfConfigured(Top)
  /\ Running("end") => ~ UnknownLaidOut(Top) /\ ~ PortOfConfigured(Top)

\* The files that f makes instantiateAll() go on to.
Uses(f) ==
  IF files[f].kind = "object"
  THEN {files[f].include} \cup ToSet(files[f].nested) \cup
       {files[e.config].file : e \in
          {x \in (IF "modules" \in DOMAIN files[f].keys
                  THEN ToSet(files[f].keys["modules"]) ELSE {}) :
             x.config # None /\ files[x.config].kind = "string"}}
  ELSE {}

(***************************************************************************)
(* The recursion of includes, at the top level of a file and in what is    *)
(* nested there, and of modules that configure themselves, comes to an     *)
(* end, unless there are files that use each other in a circle.  No step   *)
(* detects a circle (json_includer.hh, module_factory.cc).                 *)
(***************************************************************************)
RecursionEnds ==
  outcome = "overflow" =>
    \E circle \in (SUBSET Files) \ {{}} : \A f \in circle : Uses(f) \cap circle # {}

(***************************************************************************)
(* A connection connects ports that its ends mean, if there are any: those *)
(* of "module.port", of a group, and of the objects that a wildcard or a   *)
(* regular expression matches (docs/CONFIGURATION_SYSTEM.md, 3 and 6).     *)
(***************************************************************************)
ConnectionsConnect ==
  Running("end") =>
    \A c \in Connections(Top) :
      LET meant == {p \in ToSet(Top.downstream) \X ToSet(Top.upstream) : IsFor(c, p)}
      IN  meant # {} => meant \cap ConnectedPorts(Top) # {}
===============================================================================
