----------------------------- MODULE Handlebars -----------------------------
(***************************************************************************)
(* Handlebars.compile (handlebars-v1.3.0.js) for one template: the first   *)
(* use compiles the tree to opcodes and those, one at a time, to           *)
(* functions; every use calls the functions with a context.  Compiling is  *)
(* nested: a program's blocks are compiled before its own opcodes, each in *)
(* a compiler of its own, and all share the list of programs, where a      *)
(* block equal to an earlier one takes the earlier one's function.         *)
(***************************************************************************)
EXTENDS HbRuntime

CONSTANTS Templates,   \* trees of programs
          Contexts     \* values a template is rendered with

VARIABLES template,    \* the tree
          compilers,   \* the compilers at work, the innermost last
          programs,    \* the functions written: a sequence of [env, code]
          output       \* the last text rendered

vars == <<template, compilers, programs, output>>

NotYet == [t |-> "none"]
Root == 1             \* the template's own function

(* A compiler: the environment, the number of its function, the children it    *)
(* has compiled ([f, depths]), its next opcode and its stacks.                 *)
NewCompiler(env, f) ==
    [env |-> env, f |-> f, done |-> <<>>, i |-> 1, g |-> NewGenerator(env.isSimple, <<>>)]

Init == /\ template \in Templates
        /\ compilers = <<>>
        /\ programs = <<>>
        /\ output = NotYet

(* The first use of the template. *)
CompileInput ==
    /\ compilers = <<>> /\ programs = <<>>
    /\ LET env == compile(template)
       IN  /\ compilers' = <<NewCompiler(env, Root)>>
           /\ programs' = <<[env |-> env, code |-> NotYet]>>
    /\ UNCHANGED <<template, output>>

Top1 == Last(compilers)
Working == compilers # <<>>

(* The functions that a block can share: those that are finished. *)
Existing(env) == {f \in DOMAIN programs \ {Root} :
                     programs[f].code # NotYet /\ equals(programs[f].env, env)}

Child == Top1.env.children[Len(Top1.done) + 1]
ChildrenLeft == Len(Top1.done) < Len(Top1.env.children)
ChildIs(f) == [f |-> f, depths |-> Child.depths]

(* A bug: no placeholder is left for a program whose children come first. *)
CompileChildUnreserved ==
    /\ Working /\ ChildrenLeft
    /\ LET f == Cardinality({p \in DOMAIN programs : programs[p].code # NotYet}) + 2
           new == [env |-> Child, code |-> NotYet]
       IN  /\ compilers' = Append([compilers EXCEPT ![Len(compilers)].done =
                                       Append(@, ChildIs(f))], NewCompiler(Child, f))
           /\ programs' = IF f \in DOMAIN programs THEN [programs EXCEPT ![f] = new]
                          ELSE Append(programs, new)
    /\ UNCHANGED <<template, output>>

(* compileChildren: the next child is an earlier program, or is compiled. *)
CompileChild ==
    /\ Working /\ ChildrenLeft
    /\ IF Existing(Child) # {}
       THEN /\ compilers' = [compilers EXCEPT ![Len(compilers)].done =
                                Append(@, ChildIs(CHOOSE f \in Existing(Child) : TRUE))]
            /\ UNCHANGED programs
       ELSE LET f == Len(programs) + 1
            IN  /\ compilers' = Append([compilers EXCEPT ![Len(compilers)].done =
                                           Append(@, ChildIs(f))], NewCompiler(Child, f))
                /\ programs' = Append(programs, [env |-> Child, code |-> NotYet])
    /\ UNCHANGED <<template, output>>

(* One opcode on the generator with its children known. *)
Executed(g, opcode_, a) ==
    CASE opcode_ = "appendContent" -> appendContent(g, a[1])
      [] opcode_ = "strip" -> strip(g)
      [] opcode_ = "append" -> append(g)
      [] opcode_ = "appendEscaped" -> appendEscaped(g)
      [] opcode_ = "getContext" -> [g EXCEPT !.lastContext = a[1]]
      [] opcode_ = "lookupOnContext" -> push(g, DepthName(g.lastContext, a[1]))
      [] opcode_ = "pushContext" -> pushStackLiteral(g, Depth(g.lastContext))
      [] opcode_ = "lookupData" -> pushStackLiteral(g, Data)
      [] opcode_ = "lookup" -> lookup(g, a[1])
      [] opcode_ = "resolvePossibleLambda" -> resolvePossibleLambda(g)
      [] opcode_ = "pushString" -> pushStackLiteral(g, Value(Str(a[1])))
      [] opcode_ = "pushLiteral" -> pushStackLiteral(g, Value(Num(a[1])))
      [] opcode_ = "pushProgram" -> pushProgram(g, a[1])
      [] opcode_ = "emptyHash" -> pushStackLiteral(g, Hash(<<>>))
      [] opcode_ = "pushHash" -> pushNewHash(g)
      [] opcode_ = "assignToHash" -> assignToHash(g, a[1])
      [] opcode_ = "popHash" -> popHash(g)
      [] opcode_ = "blockValue" -> blockValue(g)
      [] opcode_ = "ambiguousBlockValue" -> ambiguousBlockValue(g)
      [] opcode_ = "invokeHelper" -> invokeHelper(g, a[1], a[2], a[3])
      [] opcode_ = "invokeKnownHelper" -> invokeKnownHelper(g, a[1], a[2])
      [] opcode_ = "invokeAmbiguous" -> invokeAmbiguous(g, a[1], a[2])

(* The flag that strips the next text lives for one opcode. *)
Execute ==
    /\ Working /\ ~ChildrenLeft /\ Top1.i <= Len(Top1.env.opcodes)
    /\ LET o == Top1.env.opcodes[Top1.i]
           g == Executed([Top1.g EXCEPT !.children = Top1.done], o.op, o.args)
       IN  compilers' = [compilers EXCEPT ![Len(compilers)].i = @ + 1,
                            ![Len(compilers)].g = [g EXCEPT !.stripNext = o.op = "strip"]]
    /\ UNCHANGED <<template, programs, output>>

Finish ==
    /\ Working /\ ~ChildrenLeft /\ Top1.i > Len(Top1.env.opcodes)
    /\ programs' = [programs EXCEPT ![Top1.f].code = createFunction(Top1.g, Top1.env.depths)]
    /\ compilers' = Front(compilers)
    /\ UNCHANGED <<template, output>>

(* The compiled template is called with a context. *)
Result(context) ==
    RunCode([f \in DOMAIN programs |-> programs[f].code],
            Closure(Root, <<>>, Obj(<<>>)), context, Obj(<<>>))
Render(context) ==
    /\ ~Working /\ programs # <<>>
    /\ output' = [t |-> "rendered", context |-> context, v |-> Result(context)]
    /\ UNCHANGED <<template, compilers, programs>>

Next == \/ CompileInput \/ CompileChild \/ Execute \/ Finish
        \/ \E context \in Contexts : Render(context)

Spec == Init /\ [][Next]_vars
-----------------------------------------------------------------------------
(* Types: compilers nest without repeating a function, opcodes and children *)
(* are taken in order, and what waits to be written is text.                *)
TypeOK ==
    /\ \A c \in DOMAIN compilers :
           LET k == compilers[c]
           IN  /\ k.f \in DOMAIN programs /\ programs[k.f].code = NotYet
               /\ k.i \in 1..(Len(k.env.opcodes) + 1)
               /\ Len(k.done) <= Len(k.env.children)
               /\ k.g.stackSlot \in 0..MaxSlots
               /\ \A j \in DOMAIN k.done : k.done[j].f \in DOMAIN programs
    /\ \A c, d \in DOMAIN compilers : compilers[c].f = compilers[d].f => c = d
    /\ output.t \in {"none", "rendered"}

(* "Compile completed with content left on stack" (javascript-compiler.js) is  *)
(* never thrown, and in between the compile stack holds the variables that     *)
(* stackSlot counts, each once, the first used at the bottom: no opcode counts *)
(* a variable it does not push, nor pops one it does not give back.  This is   *)
(* about the two stacks alone: a variable that lookup reuses inline, or that   *)
(* assignToHash pops, can still be overwritten while its value is waited for.  *)
StackIsBalanced ==
    \A c \in DOMAIN compilers :
        LET k == compilers[c]
            variables == SelectSeq(k.g.compileStack, LAMBDA x : ~x.literal)
        IN  /\ [j \in DOMAIN variables |-> variables[j].e.n] =
               [j \in 1..k.g.stackSlot |-> j]
            /\ k.i > Len(k.env.opcodes) => ~LeftOnStack(k.g)

(* The functions a template is compiled to write, for every context, the text  *)
(* that the template's tree means: the blanks a ~ removes, escapes, sections,  *)
(* enclosing contexts, @-variables and helper calls survive the two compilers, *)
(* the shared programs and the reuse of variables.                             *)
TextOf(v) == IF v.t = "undefined" THEN Str(<<>>)
             ELSE IF Thrown(v) THEN Throw ELSE Str(Text(v))
WritesWhatTheTreeMeans ==
    output.t = "rendered" =>
        TextOf(output.v) = TextOf(RunTree([t |-> "tree", program |-> template,
                                           scope |-> [contexts |-> <<>>]],
                                          output.context, Obj(<<>>)))
=============================================================================
