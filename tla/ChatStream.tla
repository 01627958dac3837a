----------------------------- MODULE ChatStream -----------------------------
(***************************************************************************)
(* One streamed answer on its way to the page: the lines of the LLM's      *)
(* answer read by _call_llm_stream, the events answer_question_stream      *)
(* (services/rag_service.py) yields and api/v1/chat.py frames, the network *)
(* that delivers the bytes in fragments of any size and may break, the     *)
(* reader of frontend/src/api/chat.ts that puts lines together again, and  *)
(* the chat page that appends tokens to a message of the session it shows. *)
(* What is stored of the turn is the business of module Conversation.      *)
(*                                                                         *)
(* A token is the number of the LLM line it comes from.  A framed event    *)
(* "data: {json}" is two halves of a line and two line ends, so that a     *)
(* fragment may end inside a line, between lines, or between events.       *)
(*                                                                         *)
(* An operator introduced by "Mutant:" is no part of the model.            *)
(***************************************************************************)
EXTENDS Integers, Sequences, FiniteSets, SequencesExt

CONSTANT MaxLines \* bound on the lines of an LLM's answer

ASSUME StreamAssumption == MaxLines \in Nat

VARIABLES
  llm,       \* the LLM's answer: "before", "open", "ended", "failed"
  lines,     \* its lines so far
  generated, \* the tokens among them
  server,    \* the next event of the server, or "closed"
  intent,    \* what the answer is made from: "documents", "nothing", "chat"
  wire,      \* bytes sent and not yet read
  reader,    \* the page's reader: "open", "closed", "broken"
  buffer,    \* its incomplete last line
  page,      \* the message it appends to, and what it was told
  view,      \* the messages on the page: those "asking" added to, those with
             \* the answer asked for again ("shared"), or a list put in their
             \* place, "shorter" than the answer's index or "longer"
  loading    \* whether messages were asked for and are not yet there

streamVars ==
  <<llm, lines, generated, server, intent, wire, reader, buffer, page, view, loading>>

Ev(type, token) == [type |-> type, token |-> token]
Half(e, h) == [event |-> e, half |-> h]
LineEnd == Half(Ev("none", 0), 0)
Framed(e) == <<Half(e, 1), Half(e, 2), LineEnd, LineEnd>>

\* A question may be sent while the page is still loading messages.
StreamInit ==
  /\ llm = "before" /\ lines = 0 /\ generated = <<>>
  /\ server = "meta" /\ intent = "documents"
  /\ wire = <<>> /\ reader = "open" /\ buffer = <<>>
  /\ page = [tokens |-> <<>>, sources |-> FALSE, apology |-> FALSE, done |-> FALSE,
           stray |-> FALSE]
  /\ view = "asking" /\ loading \in BOOLEAN

-----------------------------------------------------------------------------
(* The server.                                                              *)

Send(e) == wire' = IF reader = "open" THEN wire \o Framed(e) ELSE wire
AtPage == UNCHANGED <<reader, buffer, page, view, loading>>

(* The session is known, and from what the answer will be made.             *)
SendMeta ==
  /\ server = "meta" /\ Send(Ev("meta", 0))
  /\ intent' \in {"documents", "nothing", "chat"}
  /\ IF intent' = "documents" THEN server' = "answer" /\ llm' = "open"
                              ELSE server' = "sentence" /\ UNCHANGED llm
  /\ UNCHANGED <<lines, generated>> /\ AtPage

(* No document was found, or the LLM that detected the intent has answered:  *)
(* the whole text is one token.                                              *)
SendSentence ==
  /\ server = "sentence" /\ Send(Ev("token", 0))
  /\ generated' = <<0>> /\ server' = "sources"
  /\ UNCHANGED <<llm, lines, intent>> /\ AtPage

(* A line "data: {...}" with text in its delta.                             *)
ReadToken ==
  /\ llm = "open" /\ lines < MaxLines
  /\ lines' = lines + 1 /\ generated' = Append(generated, lines') /\ Send(Ev("token", lines'))
  /\ UNCHANGED <<llm, server, intent>> /\ AtPage

(* A line of another kind, without text, or that is not JSON: skipped.       *)
SkipLine ==
  /\ llm = "open" /\ lines < MaxLines
  /\ lines' = lines + 1
  /\ UNCHANGED <<llm, generated, server, intent, wire>> /\ AtPage

(* "[DONE]", a line "data: " without data, or the end of the LLM's answer.   *)
AnswerEnds ==
  /\ llm = "open" /\ llm' = "ended" /\ server' = "sources"
  /\ UNCHANGED <<lines, generated, intent, wire>> /\ AtPage

(* The LLM refuses, times out or breaks off: what it said so far stays.      *)
AnswerFails ==
  /\ llm = "open" /\ llm' = "failed" /\ server' = "sources" /\ Send(Ev("error", 0))
  /\ UNCHANGED <<lines, generated, intent>> /\ AtPage

SendSources ==
  /\ server = "sources" /\ Send(Ev("sources", 0)) /\ server' = "done"
  /\ UNCHANGED <<llm, lines, generated, intent>> /\ AtPage

SendDone ==
  /\ server = "done" /\ Send(Ev("done", 0)) /\ server' = "closed"
  /\ UNCHANGED <<llm, lines, generated, intent>> /\ AtPage

-----------------------------------------------------------------------------
(* The page.                                                                *)

AtServer == UNCHANGED <<llm, lines, generated, server, intent>>

\* The callbacks of the page write to the message at the index the answer had
\* when it was asked for, in whatever list of messages there is now; where
\* there is no such message, the exception is swallowed by the reader.
Write(p, change) ==
  CASE view \in {"asking", "shared"} -> change [] view = "shorter" -> p
    [] view = "longer" -> [p EXCEPT !.stray = TRUE]

Handle(p, e) ==
  CASE e.type = "meta" -> p
    [] e.type = "token" -> Write(p, [p EXCEPT !.tokens = Append(@, e.token)])
    [] e.type = "sources" -> Write(p, [p EXCEPT !.sources = TRUE])
    [] e.type = "error" -> Write(p, [p EXCEPT !.apology = p.tokens = <<>>])
    [] e.type = "done" -> [p EXCEPT !.done = TRUE]

\* One more piece of the bytes: at a line end the line is complete, and it is
\* handled if it is a whole event (an empty line and a torn one are skipped).
Scan(acc, b) ==
  IF b # LineEnd THEN [acc EXCEPT !.line = Append(@, b)]
  ELSE LET l == acc.line IN
       [line |-> <<>>,
        page |-> IF l # <<>> /\ l = <<Half(l[1].event, 1), Half(l[1].event, 2)>>
                 THEN Handle(acc.page, l[1].event) ELSE acc.page]

\* Mutant: what follows the last line end of a fragment is thrown away.
ReceiveForgets ==
  /\ reader = "open"
  /\ \E n \in 1..Len(wire) :
       /\ page' = FoldLeft(Scan, [line |-> <<>>, page |-> page], SubSeq(wire, 1, n)).page
       /\ wire' = SubSeq(wire, n + 1, Len(wire))
  /\ UNCHANGED <<reader, buffer, view, loading>> /\ AtServer

(* A fragment arrives: its complete lines are handled, the rest is kept.     *)
Receive ==
  /\ reader = "open"
  /\ \E n \in 1..Len(wire) :
       LET read == FoldLeft(Scan, [line |-> buffer, page |-> page], SubSeq(wire, 1, n)) IN
       /\ buffer' = read.line /\ page' = read.page
       /\ wire' = SubSeq(wire, n + 1, Len(wire))
  /\ UNCHANGED <<reader, view, loading>> /\ AtServer

(* The server has closed the response and all of it was read.               *)
Finish ==
  /\ reader = "open" /\ server = "closed" /\ wire = <<>> /\ reader' = "closed"
  /\ UNCHANGED <<wire, buffer, page, view, loading>> /\ AtServer

(* The connection breaks: what was under way is lost, and the page is told.  *)
Break ==
  /\ reader = "open" /\ reader' = "broken" /\ wire' = <<>>
  /\ page' = Write(page, [page EXCEPT !.apology = @ \/ page.tokens = <<>>])
  /\ UNCHANGED <<buffer, view, loading>> /\ AtServer

AtReader == UNCHANGED <<wire, reader, buffer>>

(* The user selects, creates or deletes a session; or the page had only now  *)
(* listed its sessions, and loads the one in its address, which may be that  *)
(* of the question.  The list is emptied, and nothing stops the stream.      *)
LoadMessages ==
  /\ view' = "shorter" /\ loading' = TRUE
  /\ UNCHANGED page /\ AtReader /\ AtServer

(* A load is answered, of the session on the page or of one it has left: its *)
(* messages take the place of all there are.  A refused one leaves them.     *)
MessagesLoaded ==
  /\ loading /\ loading' = FALSE /\ view' \in {view, "shorter", "longer"}
  /\ UNCHANGED page /\ AtReader /\ AtServer

(* The user has the answer generated again before it is complete: its text   *)
(* is deleted, and the tokens of two streams are appended to it.             *)
AskAgain ==
  /\ view = "asking" /\ view' = "shared" /\ page.tokens # <<>>
  /\ page' = [page EXCEPT !.tokens = <<>>]
  /\ UNCHANGED loading /\ AtReader /\ AtServer

StreamNext ==
  \/ SendMeta \/ SendSentence \/ ReadToken \/ SkipLine \/ AnswerEnds \/ AnswerFails
  \/ SendSources \/ SendDone \/ Receive \/ Finish \/ Break \/ LoadMessages \/ MessagesLoaded
  \/ AskAgain

StreamSpec == StreamInit /\ [][StreamNext]_streamVars

-----------------------------------------------------------------------------
\* However the bytes are cut, an answer shows the tokens of the LLM in their
\* order, none twice and none missing before a later one, as long as its
\* message stays on the page and is not asked for again (a load answered late
\* replaces it, see view); once the page is told that the answer is done it has
\* all of them, and the sources; a response that was read to its end has said
\* so; and the apology stands only where no token does, after a failure
\* (chat.ts 74-114, rag_service.py 343-366).
ShownAsGenerated ==
  view = "asking" =>
    /\ IsPrefix(page.tokens, generated)
    /\ page.done => page.tokens = generated /\ page.sources
    /\ reader = "closed" => page.done
    /\ page.apology => page.tokens = <<>> /\ (reader = "broken" \/ llm = "failed")
=============================================================================
