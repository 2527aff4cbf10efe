---------------------------- MODULE MCHandlebars ----------------------------
(* Templates of one to three statements and values of every kind. *)
EXTENDS Handlebars

Flags == [left : BOOLEAN, right : BOOLEAN]
Path(p) == SexprNode(IdNode(p), <<>>, <<>>, TRUE)
At(p)   == SexprNode(DataNode(<<p>>), <<>>, <<>>, TRUE)
Call(name, params, hash) == SexprNode(IdNode(<<name>>), params, hash, TRUE)
Sub(name, params, hash)  == SexprNode(IdNode(<<name>>), params, hash, FALSE)
Say(sexpr)  == MustacheNode(sexpr, TRUE, NoStrip)
Raw(sexpr)  == MustacheNode(sexpr, FALSE, NoStrip)
T(s) == ContentNode(s)
a  == IdNode(<<"a">>)
ab == IdNode(<<"a", "b">>)
up == IdNode(<<"..", "a">>)

(* Blanks, comments and tags; the lexer never gives two texts in a row. *)
Pieces == {T(<<"x">>), T(<<" ">>), T(<<" ", "x", " ">>), CommentNode} \cup
          {MustacheNode(Path(<<"a">>), TRUE, f) : f \in Flags}
Texts == {Program(s) : s \in {p \in SeqOf(Pieces, 3) :
             \A i \in 1..(Len(p) - 1) : ~(p[i].type = "content" /\ p[i + 1].type = "content")}}

(* A subexpression keeps its variable only if no path of two parts and no second *)
(* subexpression in a hash is compiled after it: their code would overwrite it.  *)
Sexprs == {Path(<<"a">>), Path(<<"a", "b">>), Path(<<"this">>), Path(<<"..", "a">>),
           Path(<<"this", "a">>), Path(<<"missing">>), At("index"),
           Call("show", <<a, ab, StringNode(<<"<">>)>>, <<>>),
           Call("show", <<Sub("show", <<a>>, <<>>), IntegerNode(0)>>, << <<"k", a>> >>),
           Call("show", <<a, Sub("show", <<ab>>, << <<"k", ab>> >>)>>, <<>>),
           Call("show", <<Sub("show", <<a>>, <<>>), Sub("show", <<a>>, <<>>)>>,
                << <<"k", Sub("show", <<StringNode(<<"k">>)>>, <<>>)>> >>),
           Call("show", <<>>, << <<"k", Sub("show", <<>>, << <<"j", ab>> >>)>>, <<"l", a>> >>),
           Call("missing", <<a>>, <<>>), Call("a", <<>>, << <<"k", ab>> >>)}
Sentences == {Program(<<Say(s)>>) : s \in Sexprs} \cup
             {Program(<<Raw(s), T(<<" ">>), Say(t)>>) : s, t \in Sexprs}

Heads == {Path(<<"a">>), Path(<<"a", "b">>), Path(<<"this">>), Path(<<"twice">>)} \cup
         {Call(h, <<a>>, <<>>) : h \in {"if", "unless", "each", "with"}} \cup
         {Call("if", <<ab>>, << <<"includeZero", IntegerNode(1)>> >>),
          Call("each", <<IdNode(<<"this">>)>>, <<>>)}
Simple(head, body) == BlockNode(head, Some(Program(body)), None, NoStrip, NoStrip, NoStrip)
Bodies == { <<>>, <<Say(Path(<<"this">>))>>, <<Raw(Path(<<"..", "a", "b">>)), CommentNode>>,
            <<T(<<" ">>), Say(Path(<<"b">>)), T(<<" ">>)>>,
            <<Say(At("index")), Say(At("last")), Say(At("key"))>>,
            <<Simple(Path(<<"b">>), <<Say(Path(<<"..", "..", "a">>)), T(<<"x">>)>>)>>,
            <<Simple(Call("each", <<up>>, <<>>), <<T(<<"x">>)>>),
              Simple(Path(<<"b">>), <<T(<<"x">>)>>)>> }
Others == {None, Some(Program(<<T(<<"x">>)>>)), Some(Program(<<Say(Path(<<"a">>))>>))}
Blocks == {Program(<<T(<<"x", " ">>), BlockNode(h, Some(Program(b)), o, f, m, g), T(<<" ">>)>>) :
              h \in Heads, b \in Bodies, o \in Others, f \in {NoStrip, Strip(TRUE, TRUE)},
              m \in {Strip(TRUE, FALSE)}, g \in {NoStrip, Strip(TRUE, FALSE)}} \cup
          {Program(<<BlockNode(h, None, Some(Program(b)), NoStrip, NoStrip, Strip(FALSE, TRUE))>>) :
              h \in Heads, b \in Bodies}

(* The shapes of the pages' templates: alert, sales_transaction and its detail. *)
Pages == {Program(<<T(<<"x">>), Say(Path(<<"a">>)), T(<<"x", " ">>), Say(Path(<<"b">>)), T(<<" ">>)>>),
          Program(<<Raw(Path(<<"b">>)), T(<<"x">>), Say(Path(<<"a", "b">>)), T(<<" ", "x", " ">>),
                    Say(Path(<<"a", "c">>)), T(<<" ">>), Say(Path(<<"a", "b">>)), T(<<" ">>)>>)}

MCTemplates == Pages \cup Texts \cup Sentences \cup Blocks

Values == {Undefined, Null, Bool(TRUE), Bool(FALSE), Num(0), Num(5), Str(<<>>), Str(<<"<">>),
           Fun(Str(<<"&">>)), Safe(<<"<">>), Arr(<<>>),
           Arr(<<Num(0), Obj(<< <<"b", Str(<<"y">>)>> >>)>>),
           Obj(<< <<"b", Num(0)>> >>), Obj(<< <<"b", Arr(<<Str(<<"p">>), Str(<<"q">>)>>)>>,
                                              <<"a", Bool(TRUE)>> >>)}
MCContexts == {Obj(<< <<"a", v>> >>) : v \in Values} \cup {Null, Num(0)}
=============================================================================
