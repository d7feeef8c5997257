------------------------- MODULE MCMessageStructure -------------------------
(* MessageStructure on messages of up to three levels of parts.            *)
EXTENDS MessageStructure

Node(type, disposition, named, kids) ==
  [type |-> type, disposition |-> disposition, filename |-> named, part |-> NoPart, kids |-> kids]

\* The node root over the structures kids.
Over(root, kids) ==
  [p \in {<<>>} \cup UNION {{<<i>> \o q : q \in DOMAIN kids[i]} : i \in DOMAIN kids} |->
     IF p = <<>> THEN [root EXCEPT !.kids = Len(kids)] ELSE kids[Head(p)][Tail(p)]]

Content ==
  {Over(Node(n[1], n[2], n[3], 0), <<>>) :
     n \in {<<"text/plain", "none", FALSE>>, <<"text/plain", "attachment", TRUE>>,
            <<"text/html", "none", FALSE>>, <<"text/html", "none", TRUE>>,
            <<"image/png", "attachment", FALSE>>, <<"image/png", "none", TRUE>>,
            <<"image/png", "none", FALSE>>}}

Multiparts(trees) ==
  LET mixed == Node("multipart/mixed", "none", FALSE, 0)
  IN  {Over(mixed, <<a>>) : a \in trees} \cup {Over(mixed, <<a, b>>) : a \in trees, b \in trees}

\* An attached message: an attachment with the structure of its own message.
AttachedMessages(trees) ==
  {Over(Node("message/rfc822", "attachment", FALSE, 0), <<a>>) : a \in trees}

Nested == Content \cup Multiparts(Content) \cup AttachedMessages(Content)

\* Parts are numbered along the way from the root; an attached message and
\* its root share a number.
Numbered(tree) ==
  LET Counts(p, i) == tree[SubSeq(p, 1, i - 1)].type # "message/rfc822"
      Steps(p) == SelectSeq([i \in DOMAIN p |-> i], LAMBDA i : Counts(p, i))
  IN  [p \in DOMAIN tree |->
         [tree[p] EXCEPT !.part = [k \in DOMAIN Steps(p) |-> p[Steps(p)[k]]]]]

MCStructures == {Numbered(tree) : tree \in Nested \cup Multiparts(Nested)}
=============================================================================
