------------------------------- MODULE HbTree -------------------------------
(***************************************************************************)
(* The tree the Handlebars parser builds of a template                     *)
(* (handlebars-v1.3.0.js, ast.js) and what a template means: the text it   *)
(* writes for a context, read off the tree.  Partials are left out.        *)
(***************************************************************************)
EXTENDS HbValue

None == <<>>
Some(x) == <<x>>

Strip(l, r) == [left |-> l, right |-> r]
NoStrip == Strip(FALSE, FALSE)

(* A path a/b, ../a or this: its parts and the programs it climbs. *)
IdNode(parts) ==
    LET special(p) == p \in {"..", ".", "this"}
    IN  [type |-> "ID", parts |-> SelectSeq(parts, LAMBDA p : ~special(p)),
         depth |-> Len(SelectSeq(parts, LAMBDA p : p = "..")),
         isSimple |-> Len(parts) = 1 /\ ~special(parts[1])]
DataNode(parts)  == [type |-> "DATA", parts |-> parts, isSimple |-> FALSE]
StringNode(s)    == [type |-> "STRING", string |-> s]
IntegerNode(n)   == [type |-> "INTEGER", integer |-> n]
ContentNode(s)   == [type |-> "content", string |-> s, strip |-> NoStrip]
CommentNode      == [type |-> "comment", strip |-> NoStrip]

(* hash: a sequence of <<key, value node>>.  A subexpression in parentheses *)
(* (isRoot FALSE) is always a helper call.                                  *)
SexprNode(id, params, hash, isRoot) ==
    [type |-> "sexpr", id |-> id, params |-> params, hash |-> hash, isRoot |-> isRoot,
     eligibleHelper |-> id.isSimple,
     isHelper |-> ~isRoot \/ (id.isSimple /\ (params # <<>> \/ hash # <<>>))]

MustacheNode(sexpr, escaped, strip) ==
    [type |-> "mustache", sexpr |-> sexpr, escaped |-> escaped, strip |-> strip]

Program(statements) == [type |-> "program", statements |-> statements, strip |-> NoStrip]

(* {{#sexpr}} program {{else}} inverse {{/}}; open, middle and close are the *)
(* ~ flags of the three tags.  program or inverse may be None, not both.     *)
BlockNode(sexpr, program, inverse, open, middle, close) ==
    LET both == program # None /\ inverse # None
        with_(p, l, r) == IF p = None THEN None ELSE Some([p[1] EXCEPT !.strip = Strip(l, r)])
    IN  [type |-> "block", sexpr |-> sexpr,
         program |-> with_(program, open.right, IF both THEN middle.left ELSE close.left),
         inverse |-> with_(inverse, IF both THEN middle.right ELSE open.right, close.left),
         strip |-> Strip(open.left, close.right)]

(* The three ways to read {{name ...}}. *)
classifySexpr(sexpr) ==
    IF sexpr.isHelper \/ (sexpr.eligibleHelper /\ sexpr.id.parts[1] \in knownHelpers)
    THEN "helper" ELSE IF sexpr.eligibleHelper THEN "ambiguous" ELSE "simple"

(***************************************************************************)
(* Meaning.  A scope is the stack of contexts, the innermost first, with   *)
(* the @-variables.                                                        *)
(***************************************************************************)
Blank(c) == c \in {" ", "\n"}
TrimLeft(s)  == LET at == SelectInSeq(s, LAMBDA c : ~Blank(c))
                IN  IF at = 0 THEN <<>> ELSE SubSeq(s, at, Len(s))
TrimRight(s) == Reverse(TrimLeft(Reverse(s)))

IsBlankText(node) == node.type = "content" /\ TrimLeft(node.string) = <<>>

(* The text between two tags: a ~ on the tag before it removes the blanks of  *)
(* the text next to the tag; a ~ on the tag after it removes all blanks       *)
(* before the tag, those before a comment too.                                *)
ContentText(program, i) ==
    LET ss == program.statements
        before == SelectLastInSubSeq(ss, 1, i - 1, LAMBDA n : n.type # "comment")
        after  == SelectInSubSeq(ss, i + 1, Len(ss),
                                 LAMBDA n : n.type # "comment" /\ ~IsBlankText(n))
        left   == IF before = 0 THEN program.strip.left ELSE ss[before].strip.right
        right  == IF after = 0 THEN program.strip.right ELSE ss[after].strip.left
        text   == IF left THEN TrimLeft(ss[i].string) ELSE ss[i].string
    IN  IF right THEN TrimRight(text) ELSE text

ValueOfId(id, scope) ==
    LET base == CASE id.type = "DATA" -> scope.data
                  [] id.depth < Len(scope.contexts) -> scope.contexts[id.depth + 1]
                  [] OTHER -> Undefined
        rest(v, from) == FoldLeft(PartField, v, SubSeq(id.parts, from, Len(id.parts)))
    IN  IF id.type = "DATA" \/ id.parts = <<>> THEN rest(base, 1)
        ELSE rest(ContextField(base, id.parts[1]), 2)

RECURSIVE Meaning(_, _), RunTree(_, _, _), ValueOf(_, _, _)

(* A program of the tree with the scope it stands in. *)
TreeOf(p, scope) == IF p = None THEN noop ELSE [t |-> "tree", program |-> p[1], scope |-> scope]

RunTree(prog, context, data) ==
    CASE prog = Absent -> Throw
      [] prog = noop -> Str(<<>>)
      [] OTHER -> Meaning(prog.program, [contexts |-> <<context>> \o prog.scope.contexts,
                                         data |-> data])

(* The value of a call: what the programs it runs write, or the value itself. *)
Written(r) ==
    LET run(s) == RunTree(s.prog, s.context, s.data)
    IN  CASE r.t = "run"  -> run(r)
          [] r.t = "runs" -> FoldLeft(Plus, Str(<<>>), [i \in DOMAIN r.runs |-> run(r.runs[i])])
          [] OTHER -> r

OptionsOf(block, hash, scope) ==
    [fn |-> IF block = None THEN Absent ELSE TreeOf(block[1].program, scope),
     inverse |-> IF block = None THEN Absent ELSE TreeOf(block[1].inverse, scope),
     hash |-> hash, data |-> scope.data]

(* The value of {{sexpr}}, or of {{#sexpr}} before the block is chosen. *)
ValueOf(sexpr, block, scope) ==
    LET param(p) == CASE p.type = "sexpr" -> ValueOf(p, None, scope)
                      [] p.type = "STRING" -> Str(p.string)
                      [] p.type = "INTEGER" -> Num(p.integer)
                      [] OTHER -> ValueOfId(p, scope)
        name == sexpr.id.parts[1]
        params == [i \in DOMAIN sexpr.params |-> param(sexpr.params[i])]
        hash == [i \in DOMAIN sexpr.hash |-> <<sexpr.hash[i][1], param(sexpr.hash[i][2])>>]
        kind == classifySexpr(sexpr)
    IN  CASE kind = "simple" \/ (kind = "ambiguous" /\ name \notin helpers) ->
                Called(ValueOfId(sexpr.id, scope))
          [] name \in helpers -> Written(callHelper(name, scope.contexts[1], params,
                                                    OptionsOf(block, hash, scope)))
          [] OTHER -> callValue(ContextField(scope.contexts[1], name), params)

(* What a statement writes. *)
Meaning(program, scope) ==
    LET ss == program.statements
        isCall(s) == classifySexpr(s) = "helper" \/
                     (classifySexpr(s) = "ambiguous" /\ s.id.parts[1] \in helpers)
        block(b) ==
            LET v == ValueOf(b.sexpr, Some(b), scope)
            IN  IF isCall(b.sexpr) THEN v
                ELSE Written(blockHelperMissing(scope.contexts[1], v,
                                                OptionsOf(Some(b), <<>>, scope)))
        written(i) ==
            CASE ss[i].type = "content" -> Str(ContentText(program, i))
              [] ss[i].type = "comment" -> Str(<<>>)
              [] ss[i].type = "block" -> Appended(block(ss[i]))
              [] ss[i].escaped -> escapeExpression(ValueOf(ss[i].sexpr, None, scope))
              [] OTHER -> Appended(ValueOf(ss[i].sexpr, None, scope))
    IN  FoldLeft(Plus, Str(<<>>), [i \in DOMAIN ss |-> written(i)])
=============================================================================
