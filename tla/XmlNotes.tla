------------------------------ MODULE XmlNotes ------------------------------
(***************************************************************************)
(* What was fetched is kept with a note on how: util/xml.go finds the      *)
(* place before the root element, configfetch.go and vlr_archiver.go put   *)
(* the note there as a comment, and config_compare.go takes all comments   *)
(* out again to see whether two files say the same.                        *)
(*                                                                         *)
(* A document is a sequence of tokens: "pi", a processing instruction;     *)
(* "open" and "close", <!-- and -->; "tag", any other <; "word"; "sp" and  *)
(* "tab", whitespace that the comparison skips and that it does not skip.  *)
(***************************************************************************)
EXTENDS Integers, Sequences, FiniteSets, SequencesExt, FiniteSetsExt

Blank == {"sp", "tab"}
Token == {"pi", "open", "close", "tag", "word"} \cup Blank

From(body, i) == SubSeq(body, i, Len(body))
UpTo(body, i) == SubSeq(body, 1, i)

(* Where the comment opened at i ends, 0 if nowhere.                       *)
CloseOf(body, i) ==
  LET ends == {j \in i + 1 .. Len(body) : body[j] = "close"}
  IN IF ends = {} THEN 0 ELSE Min(ends)

(* rootOffset of FindRootXmlElementOffset, 0 if it returns an error.       *)
RootOffset(body) ==
  LET root[i \in 1 .. Len(body) + 1] ==
        IF i > Len(body) THEN 0
        ELSE CASE body[i] \in Blank \cup {"pi"} -> root[i + 1]
               [] body[i] = "open" /\ CloseOf(body, i) # 0 -> root[CloseOf(body, i) + 1]
               [] body[i] = "tag" -> i
               [] OTHER -> 0
  IN root[1]

(* Only what comes before the first blank is kept.                         *)
BeforeBlanks_First(body, root) ==
  LET blank == {i \in 1 .. root - 1 : body[i] \in Blank}
  IN IF blank = {} THEN root - 1 ELSE Min(blank) - 1

(* whitespaceStart: the blanks just before the root are dropped.           *)
BeforeBlanks(body, root) ==
  Max({0} \cup {i \in 1 .. root - 1 : body[i] \notin Blank})

Note(text) == <<"sp", "open", "sp">> \o text \o <<"close", "sp">>

Noted(body, text) ==
  LET root == RootOffset(body)
  IN UpTo(body, BeforeBlanks(body, root)) \o Note(text) \o From(body, root)

(* saveXml; a body without a root element is not saved.  The note is the   *)
(* URL and the headers as they are.                                        *)
Saved(body) == RootOffset(body) # 0
SaveXml(body, text) == Noted(body, text)

(* xmlCommentCleaner of makeArchiveComment.                                *)
CleanForXml(text) == [i \in DOMAIN text |-> IF text[i] = "close" THEN "word" ELSE text[i]]

(* AddResponse: the contents of the entry.  The note goes to the end of a  *)
(* body that is not XML or HTML or has no root element.                    *)
EntryOf(body, markup, text) ==
  IF markup /\ RootOffset(body) # 0 THEN Noted(body, CleanForXml(text))
  ELSE body \o (IF body = <<>> THEN <<>> ELSE <<"sp", "sp">>) \o text

(* findXmlComment                                                          *)
CommentStarts(data) == {i \in DOMAIN data : data[i] = "open"}
HasComment(data) == CommentStarts(data) # {} /\ CloseOf(data, Min(CommentStarts(data))) # 0

(* One turn of removeXmlComments: the comment goes with the blanks around. *)
WithoutFirst(data) ==
  LET start == Min(CommentStarts(data))
      end == CloseOf(data, start)
      before == {i \in 1 .. start - 1 : data[i] # "sp"}
      after == {i \in end + 1 .. Len(data) : data[i] # "sp"}
  IN UpTo(data, Max({0} \cup before)) \o From(data, Min({Len(data) + 1} \cup after))

RECURSIVE RemoveXmlComments(_)
RemoveXmlComments(data) ==
  IF HasComment(data) THEN RemoveXmlComments(WithoutFirst(data)) ELSE data

(* compareTwoConfigFiles, before it parses them: are the bytes the same,   *)
(* at least without the comments?                                          *)
SameBytes(x, y) == x = y \/ RemoveXmlComments(x) = RemoveXmlComments(y)

----------------------------------------------------------------------------
(* What a document says: no blanks and no comments.                        *)
Content(data) ==
  LET rest[i \in 1 .. Len(data) + 1] ==
        IF i > Len(data) THEN <<>>
        ELSE CASE data[i] \in Blank -> rest[i + 1]
               [] data[i] = "open" /\ CloseOf(data, i) # 0 -> rest[CloseOf(data, i) + 1]
               [] OTHER -> <<data[i]>> \o rest[i + 1]
  IN rest[1]

(* A note changes nothing of what a saved body says, unless a URL or a     *)
(* header in it ends the comment: saveXml does not clean them, and the     *)
(* rest of the note then is part of the file.  In the archive it never     *)
(* does, and an entry that is no markup begins with the body.              *)
NotesAreComments(body, kept) ==
  /\ Saved(body) => (Content(kept.saved) = Content(body) <=> "close" \notin ToSet(kept.text))
  /\ UpTo(kept.asText, Len(body)) = body
  /\ IF RootOffset(body) # 0 THEN Content(kept.asMarkup) = Content(body)
                              ELSE UpTo(kept.asMarkup, Len(body)) = body

(* The same body fetched twice compares the same, unless a note ends early *)
(* as above; and files that compare the same always say the same.          *)
NotesDoNotCount(body, other, kept) ==
  /\ Saved(body) => (SameBytes(kept.saved, SaveXml(body, <<"word">>))
                       <=> "close" \notin ToSet(kept.text))
  /\ Saved(body) /\ Saved(other) /\ SameBytes(kept.saved, SaveXml(other, <<"word">>))
       => Content(kept.saved) = Content(other)
============================================================================
