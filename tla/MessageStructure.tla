--------------------------- MODULE MessageStructure ---------------------------
(***************************************************************************)
(* What get_message makes of a message's MIME structure, and get_attachment*)
(* of the part ids it has listed: the tree walks of                        *)
(* src/services/mailboxService.ts and the body cap of src/mcp/format.ts.   *)
(*                                                                         *)
(* A structure is a function from places to nodes: the root is at <<>>, the*)
(* i-th child of the node at p at Append(p, i).  The place stands for the  *)
(* object, which the code compares by identity, and, as it holds the       *)
(* indices of all loops over childNodes that are under way, for the call   *)
(* stack of a recursive walk.  Content is reduced to the length of the body*)
(* text, filenames to whether there is one.                                *)
(***************************************************************************)
EXTENDS Naturals, SequencesExt

\* node.part, a sequence of numbers, when there is none.
NoPart == <<>>

PartId(node) == IF node.part = NoPart THEN <<1>> ELSE node.part

\* The content of a structure: its nodes without childNodes.
Leaves(tree) == {p \in DOMAIN tree : tree[p].kids = 0}

\* Each node has a way from the root and as many children as it has childNodes.
IsTree(tree) ==
  /\ <<>> \in DOMAIN tree
  /\ \A p \in DOMAIN tree :
       /\ p \in Seq(Nat \ {0}) /\ tree[p].kids \in Nat
       /\ \A i \in 1..tree[p].kids : Append(p, i) \in DOMAIN tree
       /\ \A i \in DOMAIN p : LET up == SubSeq(p, 1, i - 1)
                              IN  up \in DOMAIN tree /\ p[i] <= tree[up].kids

\* IMAP: a part id is the id of one part.
PartsNumbered(tree) ==
  \A p, q \in Leaves(tree) : PartId(tree[p]) = PartId(tree[q]) => p = q

CONSTANTS
  Structures, \* the structures of messages
  TextTypes,  \* the types that start with text/
  BodyCap,    \* DEFAULT_BODY_CAP_CHARS
  MaxLength   \* bound: characters of a body text

ASSUME StructureAssumption ==
  /\ BodyCap \in Nat /\ MaxLength \in Nat /\ "text/plain" \in TextTypes
  /\ \A tree \in Structures : IsTree(tree) /\ PartsNumbered(tree)

VARIABLES
  bodyStructure,  \* the message's structure (external)
  length,         \* characters of its text part (external)
  walk,           \* the walk under way: what it is for, where it is, and
                  \* whether the call for that node has returned
  acc,            \* what it has collected
  textPart,       \* the text part get_message has found
  detail,         \* what get_message has answered
  asked,          \* the part id get_attachment was called with
  file            \* the part it has found

structureVars == <<bodyStructure, length, walk, acc, textPart, detail, asked, file>>

NoStructure == [p \in {} |-> p]
NoPlace == <<0>>
NoWalk == [task |-> "none", at |-> <<>>, back |-> FALSE]
NoAnswer == [body |-> NoPlace, shown |-> 0, truncated |-> FALSE, attachments |-> <<>>, given |-> FALSE]

StructureInit ==
  /\ bodyStructure \in Structures \cup {NoStructure}
  /\ length = 0
  /\ walk = NoWalk
  /\ acc = <<>>
  /\ textPart = NoPlace
  /\ detail = NoAnswer
  /\ asked = NoPart
  /\ file = NoPlace

-----------------------------------------------------------------------------
(* The walks: depth first, to the leaves.                                  *)

Here == bodyStructure[walk.at]

Start(task) ==
  /\ walk' = [NoWalk EXCEPT !.task = task]
  /\ acc' = <<>>

\* for (const child of node.childNodes): the first,
FirstChild ==
  /\ walk.task # "none" /\ ~walk.back
  /\ Here.kids > 0
  /\ walk' = [walk EXCEPT !.at = Append(@, 1)]
  /\ UNCHANGED <<bodyStructure, length, acc, textPart, detail, asked, file>>

\* the next,
NextChild ==
  /\ walk.task # "none" /\ walk.back /\ walk.at # <<>>
  /\ Last(walk.at) < bodyStructure[Front(walk.at)].kids
  /\ walk' = [walk EXCEPT !.at = Append(Front(@), Last(@) + 1), !.back = FALSE]
  /\ UNCHANGED <<bodyStructure, length, acc, textPart, detail, asked, file>>

\* and after the last the call for their parent returns.
ChildrenDone ==
  /\ walk.task # "none" /\ walk.back /\ walk.at # <<>>
  /\ Last(walk.at) = bodyStructure[Front(walk.at)].kids
  /\ walk' = [walk EXCEPT !.at = Front(@)]
  /\ UNCHANGED <<bodyStructure, length, acc, textPart, detail, asked, file>>

AtLeaf(task) == walk.task = task /\ ~walk.back /\ Here.kids = 0
Return == walk' = [walk EXCEPT !.back = TRUE]
Returned(task) == walk.task = task /\ walk.back /\ walk.at = <<>>

isTextType(type) == type \in TextTypes

\* The leaf is text and not an attachment.
IsText(p) == bodyStructure[p].disposition # "attachment" /\ isTextType(bodyStructure[p].type)

\* collectTextLeaves
TextLeaf ==
  /\ AtLeaf("text")
  /\ acc' = IF IsText(walk.at) THEN Append(acc, walk.at) ELSE acc
  /\ Return
  /\ UNCHANGED <<bodyStructure, length, textPart, detail, asked, file>>

\* Mutant: text is taken for body text, wherever it is.
IsAttachment_NoText(p) ==
  /\ p # textPart /\ ~isTextType(bodyStructure[p].type)
  /\ bodyStructure[p].disposition = "attachment" \/ bodyStructure[p].filename

\* The leaf is listed: attached or named, and not shown as the body.
IsAttachment(p) ==
  /\ p # textPart
  /\ bodyStructure[p].disposition = "attachment" \/ bodyStructure[p].filename

Entry(node) == [partId |-> PartId(node), filename |-> node.filename, mimeType |-> node.type]

\* collectAttachments
AttachmentLeaf ==
  /\ AtLeaf("attachments")
  /\ acc' = IF IsAttachment(walk.at) THEN Append(acc, Entry(Here)) ELSE acc
  /\ Return
  /\ UNCHANGED <<bodyStructure, length, textPart, detail, asked, file>>

\* Mutant: the search knows no id of a message that is a single part.
HasPart_NoDefault(p, partId) == bodyStructure[p].part = partId

HasPart(p, partId) == PartId(bodyStructure[p]) = partId

\* findNodeByPart: whatever is found is returned by all calls under way.
PartLeaf ==
  /\ AtLeaf("part")
  /\ IF HasPart(walk.at, asked) THEN file' = walk.at /\ walk' = NoWalk
     ELSE Return /\ UNCHANGED file
  /\ UNCHANGED <<bodyStructure, length, acc, textPart, detail, asked>>

-----------------------------------------------------------------------------
(* getMessage and getAttachment.                                           *)

\* message.body.length > capChars
Truncated(n) == n > BodyCap

\* The MCP tool bounds the body (formatMessageBody),
formatMessageBody(message) ==
  IF Truncated(message.shown) THEN [message EXCEPT !.shown = BodyCap, !.truncated = TRUE] ELSE message

\* and the HTTP route gives the whole of it (formatMessageDetails).
formatMessageDetails(message) == message

Answer(body, shown, attachments) ==
  LET message == [body |-> body, shown |-> shown, truncated |-> FALSE,
                  attachments |-> attachments, given |-> TRUE]
  IN  detail' \in {formatMessageBody(message), formatMessageDetails(message)}

GetMessage ==
  /\ walk.task = "none" /\ ~detail.given
  /\ IF bodyStructure = NoStructure THEN Answer(NoPlace, 0, <<>>) /\ UNCHANGED <<walk, acc>>
     ELSE Start("text") /\ UNCHANGED detail
  /\ UNCHANGED <<bodyStructure, length, textPart, asked, file>>

\* Mutant: the first text part, whatever its type.
findPreferredTextPart_First(leaves) == IF leaves # <<>> THEN leaves[1] ELSE NoPlace

\* leaves.find((leaf) => plain text) ?? leaves[0]
findPreferredTextPart(leaves) ==
  LET plain == {i \in DOMAIN leaves : bodyStructure[leaves[i]].type = "text/plain"}
  IN  IF plain # {} THEN leaves[Min(plain)]
      ELSE IF leaves # <<>> THEN leaves[1] ELSE NoPlace

\* The text leaves are collected, the preferred one is downloaded.
TextFound ==
  /\ Returned("text")
  /\ textPart' = findPreferredTextPart(acc)
  /\ length' \in IF textPart' = NoPlace THEN {0} ELSE 0..MaxLength
  /\ Start("attachments")
  /\ UNCHANGED <<bodyStructure, detail, asked, file>>

AttachmentsCollected ==
  /\ Returned("attachments")
  /\ Answer(textPart, length, acc)
  /\ walk' = NoWalk
  /\ UNCHANGED <<bodyStructure, length, acc, textPart, asked, file>>

\* Any id may be asked for; the message stays as it is.
GetAttachment(partId) ==
  /\ walk.task = "none" /\ detail.given
  /\ asked' = partId
  /\ file' = NoPlace
  /\ IF bodyStructure = NoStructure THEN UNCHANGED <<walk, acc>> ELSE Start("part")
  /\ UNCHANGED <<bodyStructure, length, textPart, detail>>

PartNotFound ==
  /\ Returned("part")
  /\ walk' = NoWalk
  /\ UNCHANGED <<bodyStructure, length, acc, textPart, detail, asked, file>>

AskedFor == {PartId(bodyStructure[p]) : p \in Leaves(bodyStructure)} \cup {<<1>>, <<2>>}

StructureNext ==
  \/ FirstChild \/ NextChild \/ ChildrenDone
  \/ TextLeaf \/ AttachmentLeaf \/ PartLeaf
  \/ GetMessage \/ TextFound \/ AttachmentsCollected
  \/ \E partId \in AskedFor : GetAttachment(partId)
  \/ PartNotFound

StructureSpec == StructureInit /\ [][StructureNext]_structureVars

-----------------------------------------------------------------------------
(* Properties.                                                             *)

Listed == ToSet(detail.attachments)

(* docs/mcp-tools.md: partId is an "Attachment part id, from get_message's *)
(* attachments[].partId".  Every id that was listed leads back to the very *)
(* part it was listed for, wherever that part sits in the tree.            *)
ListedIsFound ==
  \A a \in Listed : walk.task = "none" /\ asked = a.partId =>
    file # NoPlace /\ a = Entry(bodyStructure[file])

\* p comes before q in the message.
Before(p, q) ==
  \E i \in DOMAIN p \cap DOMAIN q : p[i] < q[i] /\ \A j \in 1..(i - 1) : p[j] = q[j]

(* Proposal of the tools: "prefer the text/plain part".  The body is plain *)
(* text if any part that is not an attachment is, and no part before it in *)
(* the message would have done as well; only a message without text has    *)
(* none.                                                                   *)
BodyIsPreferredText ==
  detail.given /\ bodyStructure # NoStructure =>
    LET text == {p \in Leaves(bodyStructure) : IsText(p)}
        plain == {p \in text : bodyStructure[p].type = "text/plain"}
        best == IF plain # {} THEN plain ELSE text
    IN  /\ best = {} <=> detail.body = NoPlace
        /\ best # {} => detail.body \in best
        /\ \A p \in best : ~Before(p, detail.body)

(* Proposal of the tools: "Attachment metadata is always included", and    *)
(* get_message never leaves "the agent stranded without the rest".  Every  *)
(* part with content that is attached or named is the body or can be asked *)
(* for, none is listed twice or both shown and listed, and an answer that  *)
(* holds back part of the body, and only such an answer, says so.          *)
NothingOutOfReach ==
  detail.given /\ bodyStructure # NoStructure =>
    LET parts == {p \in Leaves(bodyStructure) :
                    bodyStructure[p].disposition = "attachment" \/ bodyStructure[p].filename}
        IdOf(p) == PartId(bodyStructure[p])
        Id(i) == detail.attachments[i].partId
    IN  /\ {Id(i) : i \in DOMAIN detail.attachments} = {IdOf(p) : p \in parts \ {detail.body}}
        /\ \A i, j \in DOMAIN detail.attachments : Id(i) = Id(j) => i = j
        /\ detail.body # NoPlace =>
             detail.body \in Leaves(bodyStructure) /\ (detail.truncated <=> detail.shown < length)

=============================================================================
