----------------------------- MODULE HbCompiler -----------------------------
(***************************************************************************)
(* The Compiler of handlebars-v1.3.0.js: from the tree of a program to its *)
(* opcodes.  An environment holds the opcodes, the environments of the     *)
(* blocks inside (children) and the depths: the enclosing contexts the     *)
(* program reads, which its caller must hand to it.                        *)
(***************************************************************************)
EXTENDS HbTree

NoProgram == 0          \* guid of a missing block; a child's guid is its position

opcode(c, name, args) == [c EXCEPT !.opcodes = Append(@, [op |-> name, args |-> args])]

addDepth(c, depth) == IF depth = 0 THEN c ELSE [c EXCEPT !.depths = @ \cup {depth}]

getContext(c, depth) == opcode(c, "getContext", <<depth>>)

(* ID: the context the path starts from, then one lookup per part. *)
ID(c, id) ==
    LET at == getContext(addDepth(c, id.depth), id.depth)
        first == IF id.parts = <<>> THEN opcode(at, "pushContext", <<>>)
                 ELSE opcode(at, "lookupOnContext", <<id.parts[1]>>)
    IN  FoldLeft(LAMBDA d, part : opcode(d, "lookup", <<part>>), first,
                 SubSeq(id.parts, 2, Len(id.parts)))

DATA(c, id) ==
    FoldLeft(LAMBDA d, part : opcode(d, "lookup", <<part>>),
             opcode(c, "lookupData", <<>>), id.parts)

simpleSexpr(c, sexpr) ==
    opcode(IF sexpr.id.type = "DATA" THEN DATA(c, sexpr.id) ELSE ID(c, sexpr.id),
           "resolvePossibleLambda", <<>>)

pushPrograms(c, program, inverse) ==
    opcode(opcode(c, "pushProgram", <<program>>), "pushProgram", <<inverse>>)

ambiguousSexpr(c, sexpr, program, inverse) ==
    LET isBlock == program # NoProgram \/ inverse # NoProgram
    IN  opcode(pushPrograms(getContext(c, sexpr.id.depth), program, inverse),
               "invokeAmbiguous", <<sexpr.id.parts[1], isBlock>>)

RECURSIVE accept(_, _), helperSexpr(_, _, _, _), compile(_)

(* A parameter or a hash value. *)
pushParam(c, p) ==
    CASE p.type = "ID" -> ID(c, p)
      [] p.type = "DATA" -> DATA(c, p)
      [] p.type = "STRING" -> opcode(c, "pushString", <<p.string>>)
      [] p.type = "INTEGER" -> opcode(c, "pushLiteral", <<p.integer>>)
      [] p.type = "sexpr" -> helperSexpr(c, p, NoProgram, NoProgram)

pushHash(c, hash) ==
    IF hash = <<>> THEN opcode(c, "emptyHash", <<>>)
    ELSE opcode(FoldLeft(LAMBDA d, pair : opcode(pushParam(d, pair[2]),
                                                 "assignToHash", <<pair[1]>>),
                         opcode(c, "pushHash", <<>>), hash),
                "popHash", <<>>)

(* The parameters are pushed last to first. *)
setupFullMustacheParams(c, sexpr, program, inverse) ==
    pushHash(pushPrograms(FoldLeft(pushParam, c, Reverse(sexpr.params)), program, inverse),
             sexpr.hash)

helperSexpr(c, sexpr, program, inverse) ==
    LET set == setupFullMustacheParams(c, sexpr, program, inverse)
        name == sexpr.id.parts[1]
    IN  IF name \in knownHelpers
        THEN opcode(set, "invokeKnownHelper", <<Len(sexpr.params), name>>)
        ELSE opcode(set, "invokeHelper", <<Len(sexpr.params), name, sexpr.isRoot>>)

(* sexpr and the blocks it controls. *)
sexprOf(c, sexpr, program, inverse) ==
    LET kind == classifySexpr(sexpr)
    IN  CASE kind = "helper" -> helperSexpr(c, sexpr, program, inverse)
          [] kind = "ambiguous" -> ambiguousSexpr(c, sexpr, program, inverse)
          [] OTHER -> simpleSexpr(c, sexpr)

mustache(c, m) ==
    opcode(sexprOf(c, m.sexpr, NoProgram, NoProgram),
           IF m.escaped THEN "appendEscaped" ELSE "append", <<>>)

(* A bug: what a block reads further up is not asked of this program's caller. *)
compileProgramKeepsDepths(c, program) ==
    IF program = None THEN c
    ELSE [c EXCEPT !.children = Append(@, compile(program[1]))]

(* A block's program is a child; what it reads two levels up, this program *)
(* reads one level up.                                                      *)
compileProgram(c, program) ==
    IF program = None THEN c
    ELSE LET result == compile(program[1])
         IN  [c EXCEPT !.children = Append(@, result),
                       !.depths = @ \cup {d - 1 : d \in result.depths \ {1}}]

block(c, b) ==
    LET one == compileProgram(c, b.program)
        two == compileProgram(one, b.inverse)
        program == IF b.program = None THEN NoProgram ELSE Len(one.children)
        inverse == IF b.inverse = None THEN NoProgram ELSE Len(two.children)
        kind == classifySexpr(b.sexpr)
        value == sexprOf(two, b.sexpr, program, inverse)
        chosen(name) == opcode(opcode(pushPrograms(value, program, inverse),
                                      "emptyHash", <<>>), name, <<>>)
    IN  opcode(CASE kind = "helper" -> value
                 [] kind = "simple" -> chosen("blockValue")
                 [] OTHER -> chosen("ambiguousBlockValue"), "append", <<>>)

(* A node between the strip opcodes its ~ flags ask for. *)
accept(c, node) ==
    LET before == IF node.strip.left THEN opcode(c, "strip", <<>>) ELSE c
        at == CASE node.type = "program" -> FoldLeft(accept, before, node.statements)
                [] node.type = "content" -> opcode(before, "appendContent", <<node.string>>)
                [] node.type = "comment" -> before
                [] node.type = "mustache" -> mustache(before, node)
                [] node.type = "block" -> block(before, node)
    IN  IF node.strip.right THEN opcode(at, "strip", <<>>) ELSE at

compile(program) ==
    LET c == accept([opcodes |-> <<>>, children |-> <<>>, depths |-> {}], program)
    IN  [opcodes |-> c.opcodes, children |-> c.children, depths |-> c.depths,
         isSimple |-> Len(program.statements) = 1]

(* The same opcodes and the same children. *)
RECURSIVE equals(_, _)
equals(env, other) ==
    /\ Len(env.opcodes) = Len(other.opcodes)
    /\ \A i \in DOMAIN env.opcodes : /\ env.opcodes[i].op = other.opcodes[i].op
                                     /\ env.opcodes[i].args = other.opcodes[i].args
    /\ Len(env.children) = Len(other.children)
    /\ \A i \in DOMAIN env.children : equals(env.children[i], other.children[i])
=============================================================================
