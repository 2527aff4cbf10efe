---------------------------- MODULE HbGenerator ----------------------------
(***************************************************************************)
(* The JavaScriptCompiler of handlebars-v1.3.0.js: what each opcode does   *)
(* to the compiler's two stacks and to the source of the function it       *)
(* writes.  The stacks hold expressions of the generated function: an      *)
(* entry of the inline stack is not yet written anywhere, an entry of the  *)
(* compile stack is a variable stack1, stack2, ... the source has assigned,*)
(* or a Literal.  stackSlot counts the variables in use.                   *)
(* Expressions are records told apart by "k"; children tells, for a guid,  *)
(* the function generated for it and the depths it wants.                  *)
(***************************************************************************)
EXTENDS HbCompiler

(* Expressions. *)
Value(v)          == [k |-> "value", v |-> v]
Depth(d)          == [k |-> "depth", d |-> d]
Data              == [k |-> "data"]
Slot(n)           == [k |-> "slot", n |-> n]
DepthName(d, name) == [k |-> "depthname", d |-> d, name |-> name]
Part(e, name)     == [k |-> "part", e |-> e, name |-> name]
Lambda(e)         == [k |-> "lambda", e |-> e]
Comma(n, e, rest) == [k |-> "comma", n |-> n, e |-> e, rest |-> rest]
Hash(pairs)       == [k |-> "hash", pairs |-> pairs]
Function(f, depths) == [k |-> "function", f |-> f, depths |-> depths]
Noop              == [k |-> "noop"]
NoFunction        == [k |-> "null"]
Options(hash, inverse, fn) == [k |-> "options", hash |-> hash, inverse |-> inverse, fn |-> fn]
TheOptions        == [k |-> "theOptions"]              \* the register "options"

NewGenerator(isSimple, children) ==
    [inlineStack |-> <<>>, compileStack |-> <<>>, stackSlot |-> 0, lastContext |-> 0,
     pendingContent |-> <<>>, stripNext |-> FALSE, hash |-> None, hashes |-> <<>>,
     lastHelper |-> "", source |-> <<>>, isSimple |-> isSimple, children |-> children]

Literal(e)    == [literal |-> TRUE, e |-> e]
Expression(e) == [literal |-> FALSE, e |-> e]

(* A statement that adds e to the buffer, or returns it from a function of    *)
(* one statement.                                                             *)
appendToBuffer(g, e) == IF g.isSimple THEN [s |-> "return", e |-> e]
                                      ELSE [s |-> "buffer", es |-> <<e>>]

(* Text waiting to be written goes before the statement. *)
pushSource(g, statements) ==
    LET text == IF g.pendingContent = <<>> THEN <<>>
                ELSE <<appendToBuffer(g, Value(Str(g.pendingContent)))>>
    IN  [g EXCEPT !.source = @ \o text \o statements, !.pendingContent = <<>>]

push(g, e)             == [g EXCEPT !.inlineStack = Append(@, Expression(e))]
pushStackLiteral(g, e) == [g EXCEPT !.inlineStack = Append(@, Literal(e))]

(* A new variable, assigned by the statements that are given. *)
pushVariable(g, statements) ==
    LET n == g.stackSlot + 1
    IN  [pushSource(g, statements) EXCEPT !.stackSlot = n,
                                          !.compileStack = Append(@, Expression(Slot(n)))]

flushInline(g) ==
    LET flush(h, entry) ==
            IF entry.literal THEN [h EXCEPT !.compileStack = Append(@, entry)]
            ELSE pushVariable(h, <<[s |-> "assign", n |-> h.stackSlot + 1, e |-> entry.e]>>)
    IN  FoldLeft(flush, [g EXCEPT !.inlineStack = <<>>], g.inlineStack)

nextStack(g) == pushVariable(flushInline(g), <<>>)

isInline(g) == g.inlineStack # <<>>
topStack(g) == (IF isInline(g) THEN Last(g.inlineStack) ELSE Last(g.compileStack)).e

(* A bug: a popped variable stays in use. *)
popStackKeepsSlot(g) ==
    IF isInline(g) THEN [g EXCEPT !.inlineStack = Front(@)]
    ELSE [g EXCEPT !.compileStack = Front(@)]

(* Popping a variable frees it. *)
popStack(g) ==
    IF isInline(g) THEN [g EXCEPT !.inlineStack = Front(@)]
    ELSE [g EXCEPT !.stackSlot = IF Last(g.compileStack).literal THEN @ ELSE @ - 1,
                   !.compileStack = Front(@)]

(* Replaces the top by an item that repeats it, as callback's argument: an    *)
(* expression is first put in a variable, a new one when none is in use, else *)
(* the one in use last.  A literal of the compile stack is left where it is.  *)
reused(g) == IF g.stackSlot = 0 THEN 1 ELSE g.stackSlot
repeats(g) == isInline(g) /\ ~Last(g.inlineStack).literal
current(g) == IF repeats(g) THEN Slot(reused(g)) ELSE topStack(g)
replaceStack(g, item) ==
    CASE repeats(g) -> push(popStack(g), Comma(reused(g), topStack(g), item))
      [] isInline(g) /\ ~repeats(g) -> push(popStack(g), item)
      [] OTHER -> LET h == IF Last(g.compileStack).literal THEN nextStack(g) ELSE g
                  IN  pushSource(h, <<[s |-> "assign", n |-> topStack(h).n, e |-> item]>>)

(* The n topmost entries, the top first. *)
Top(g, n) == LET all == g.compileStack \o g.inlineStack
             IN  [i \in 1..n |-> all[Len(all) + 1 - i].e]
Pop(g, n) == FoldLeft(LAMBDA h, i : popStack(h), g, [i \in 1..n |-> i])

(* hash, inverse and program are on top, then the parameters.  A block that   *)
(* has only one of its programs gets noop for the other.                      *)
setupOptions(g) ==
    LET t == Top(g, 3)
        neither == t[2] = NoFunction /\ t[3] = NoFunction
        orNoop(f) == IF neither \/ f # NoFunction THEN f ELSE Noop
    IN  Options(t[1], orNoop(t[2]), orNoop(t[3]))

setupParams(g, paramSize) == SubSeq(Top(g, paramSize + 3), 4, paramSize + 3)

(* The opcodes. *)
appendContent(g, content) ==
    LET text == g.pendingContent \o content
    IN  [g EXCEPT !.pendingContent = IF g.stripNext THEN TrimLeft(text) ELSE text]

strip(g) == [g EXCEPT !.pendingContent = TrimRight(@)]

append(g) ==
    LET h == flushInline(g)
    IN  pushSource(popStack(h), <<[s |-> IF g.isSimple THEN "returnIf" ELSE "bufferIf",
                                   e |-> topStack(h)]>>)

appendEscaped(g) ==
    pushSource(popStack(g), <<appendToBuffer(g, [k |-> "escape", e |-> topStack(g)])>>)

lookup(g, name) == replaceStack(g, Part(current(g), name))
resolvePossibleLambda(g) == replaceStack(g, Lambda(current(g)))

pushProgram(g, guid) ==
    pushStackLiteral(g, IF guid = NoProgram THEN NoFunction
                        ELSE Function(g.children[guid].f, g.children[guid].depths))

pushNewHash(g) == [g EXCEPT !.hash = Some(<<>>),
                            !.hashes = IF g.hash = None THEN @ ELSE Append(@, g.hash)]
assignToHash(g, key) ==
    [popStack(g) EXCEPT !.hash = Some(Append(g.hash[1], <<key, topStack(g)>>))]
popHash(g) ==
    push([g EXCEPT !.hash = IF g.hashes = <<>> THEN None ELSE Last(g.hashes),
                   !.hashes = IF @ = <<>> THEN @ ELSE Front(@)], Hash(g.hash[1]))

blockMissing(v, options) == [k |-> "blockMissing", v |-> v, options |-> options]
blockValue(g) ==
    LET h == Pop(g, 3)
    IN  replaceStack(h, blockMissing(current(h), setupOptions(g)))
ambiguousBlockValue(g) ==
    LET h == Pop(g, 3)
    IN  pushSource(h, <<[s |-> "unlessHelper", name |-> g.lastHelper, n |-> topStack(h).n,
                         e |-> blockMissing(topStack(h), setupOptions(g))]>>)

invokeKnownHelper(g, paramSize, name) ==
    push(Pop(g, paramSize + 3),
         [k |-> "helper", name |-> name, params |-> setupParams(g, paramSize),
          options |-> setupOptions(g)])

(* A helper, or else a function of the context that was read last; the        *)
(* options go through the register.  A subexpression is flushed at once.      *)
invokeHelper(g, paramSize, name, isRoot) ==
    LET h == push([Pop(g, paramSize + 3) EXCEPT !.lastHelper = name],
                  [k |-> "helperOr", name |-> name, d |-> g.lastContext,
                   params |-> setupParams(g, paramSize), options |-> setupOptions(g)])
    IN  IF isRoot THEN h ELSE flushInline(h)

invokeAmbiguous(g, name, isBlock) ==
    LET ready == pushStackLiteral(g, Hash(<<>>))          \* emptyHash
        h == nextStack([Pop(ready, 3) EXCEPT !.lastHelper = name])
        register == IF isBlock THEN <<[s |-> "options", e |-> setupOptions(ready)]>> ELSE <<>>
    IN  pushSource(h, register \o
            <<[s |-> "ambiguous", name |-> name, d |-> g.lastContext, n |-> topStack(h).n,
               options |-> IF isBlock THEN TheOptions ELSE setupOptions(ready)]>>)

(* Neighbouring appends of the buffer become one. *)
mergeSource(source) ==
    FoldLeft(LAMBDA out, s :
                 IF out # <<>> /\ s.s = "buffer" /\ Last(out).s = "buffer"
                 THEN Append(Front(out), [s |-> "buffer", es |-> Last(out).es \o s.es])
                 ELSE Append(out, s),
             <<>>, source)

(* A function is finished: the text that waits is written; nothing may be     *)
(* left on the stacks.                                                        *)
LeftOnStack(g) == g.stackSlot # 0 \/ g.inlineStack # <<>> \/ g.compileStack # <<>>
createFunction(g, depths) ==
    [source |-> mergeSource(pushSource(g, <<>>).source), isSimple |-> g.isSimple,
     depths |-> depths]
=============================================================================
