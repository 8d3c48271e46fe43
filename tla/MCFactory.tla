------------------------------ MODULE MCFactory -------------------------------
(***************************************************************************)
(* Configurations of up to three entries, cpu, mem and sub.  The file main *)
(* may include more, at its top level or in an object inside it, and more  *)
(* includes other files in both ways; the configuration of an entry is the *)
(* file own, whose string leads to inner, which defines the group cpus     *)
(* once more, or back to main.                                             *)
(***************************************************************************)
EXTENDS Factory

CONSTANTS cpu, mem, sub, in, out, cpus, mems, Port, Bare, Module, Unknown,
          main, more, own, inner

Entry(name, type) == [name |-> name, type |-> type, layout |-> FALSE, config |-> None]
LaidOut(name, type) == [Entry(name, type) EXCEPT !.layout = TRUE]
Configured(name, type) == [Entry(name, type) EXCEPT !.config = own]

MCModules ==
  {<<Entry(cpu, Port), Entry(mem, Port)>>,
   <<Entry(cpu, Port), Configured(mem, Port)>>,
   <<Configured(sub, Module), Entry(cpu, Port), Entry(mem, Port)>>,
   <<LaidOut(cpu, Port), LaidOut(mem, Unknown)>>,
   <<Entry(mem, Port), Entry(cpu, Bare), LaidOut(cpu, Unknown)>>,
   <<Configured(cpu, None), Entry(cpu, Module), Entry(mem, Port)>>,
   <<Entry(mem, Port), Entry(None, Port), Configured(None, Port)>>}

Group(g) == [Plain(None, None) EXCEPT !.group = g]
Pattern(names) == [Plain(None, None) EXCEPT !.names = names]
Regex(names) == [Pattern(names) EXCEPT !.regex = TRUE]
Connection(src, dst) == [src |-> src, dst |-> dst, exclude |-> {}]
cpu_out == Plain(cpu, out)
mem_in == Plain(mem, in)

MCConnections ==
  {<<Connection(cpu_out, mem_in)>>,
   <<Connection(cpu_out, mem_in), Connection(Group(cpus), Group(mems))>>,
   <<Connection(cpu_out, Plain(sub, in)), Connection(Pattern({cpu}), Group(mems)),
     Connection(Regex({}), mem_in)>>,
   <<[Connection(Group(cpus), Group(mems)) EXCEPT !.exclude = {cpu_out}],
     Connection(cpu_out, Plain(mem, out)), Connection(Plain(mem, None), mem_in),
     Connection(Regex({mem}), Group(mems))>>}

MCGroups == cpus :> <<cpu_out, Plain(cpu, None)>> @@ mems :> <<mem_in, mem_in>>

Object(include, nested, keys) ==
  [kind |-> "object", include |-> include, nested |-> nested, keys |-> keys]
Alone(keys) == Object(None, <<>>, keys)
String(file) == [kind |-> "string", file |-> file]
Missing == [kind |-> "missing"]

InnerKeys ==
  [modules |-> <<Entry(cpu, Port)>>, groups |-> cpus :> <<Plain(sub, out), mem_in>>]

OwnPorts == [outputs |-> <<[external |-> out, internal |-> cpu_out]>>]

MCFileSystems ==
  {main :> Object(uses[1], uses[2], [modules |-> modules, groups |-> MCGroups])
     @@ more :> extra @@ own :> config @@ inner :> Alone(InnerKeys) :
     uses \in {<<None, <<>>>>, <<more, <<>>>>, <<None, <<inner, more>>>>},
     modules \in MCModules,
     extra \in {Alone([modules |-> <<>>, connections |-> connections]) :
                  connections \in MCConnections}
               \cup {Object(main, <<>>, EmptyFunction), Missing,
                     Object(inner, <<inner, own>>, [connections |-> <<Connection(cpu_out, mem_in)>>]),
                     Object(None, <<inner, more>>, EmptyFunction)},
     config \in {String(inner), String(main), Alone(OwnPorts), Missing}}
===============================================================================
