----------------------------- MODULE Playground -----------------------------
(***************************************************************************)
(* The conversation of the web playground (features/playground of the      *)
(* default front end).  The page keeps a list of messages, one reference   *)
(* to "the" event stream and one flag "the stream is complete"; every      *)
(* answer, whichever request it belongs to, is written into the last       *)
(* message.  Handlers of clicks work on the list as it was last rendered.  *)
(*                                                                         *)
(* Each event handler is one step.  sse.js and axios are external: an open *)
(* request delivers chunks in order and ends once.                         *)
(***************************************************************************)
EXTENDS Integers, SequencesExt

CONSTANTS
    Requests, NoRequest,
    MaxKeys      \* messages created (bound)

ASSUME PlaygroundAssumption == NoRequest \notin Requests /\ MaxKeys \in Nat

VARIABLES
    messages,    \* the state: what the next updater sees
    shown,       \* the list of the last render, used by the click handlers
    generating,  \* isGenerating at the last render
    editing,     \* key of the message in the editor, 0 without one
    source,      \* sseSourceRef.current
    complete,    \* isStreamCompleteRef.current
    request,     \* of each request: how it is sent, or that it is over
    keys,        \* messages created so far
    strays       \* what happened that may put an answer in the wrong place

page == <<messages, shown, generating, editing, keys>>
connection == <<source, complete>>
vars == <<page, connection, request, strays>>

\* "of" is the request the message was created for, "parts" are the requests
\* whose text or error it shows.
User(k) == [key |-> k, from |-> "user", status |-> "none", of |-> NoRequest, parts |-> {}]
Loading(k, r) == [key |-> k, from |-> "assistant", status |-> "loading", of |-> r, parts |-> {}]

Statuses == {"none", "loading", "streaming", "complete", "error"}
Stuck(m) == m.status \in {"loading", "streaming"}
Live(r) == r # NoRequest /\ request[r] \in {"stream", "plain"}

Message == [key : 1..MaxKeys, from : {"user", "assistant"}, status : Statuses,
            of : Requests \cup {NoRequest}, parts : SUBSET Requests]

\* Types, and no two messages of one key: the handlers find a message by its key.
TypeOK ==
    /\ messages \in Seq(Message) /\ shown \in Seq(Message)
    /\ \A i, j \in DOMAIN messages : messages[i].key = messages[j].key => i = j
    /\ generating \in BOOLEAN /\ complete \in BOOLEAN
    /\ editing \in 0..MaxKeys /\ keys \in 0..MaxKeys
    /\ source \in Requests \cup {NoRequest}
    /\ request \in [Requests -> {"unused", "stream", "plain", "over"}]
    /\ strays \subseteq {"overlap", "stale", "no choice", "no end"}

Init ==
    /\ messages = <<>> /\ shown = <<>> /\ generating = FALSE /\ editing = 0
    /\ source = NoRequest /\ complete = FALSE
    /\ request = [r \in Requests |-> "unused"]
    /\ keys = 0 /\ strays = {}

\* React renders the list and reads the reference.
Render ==
    /\ shown' = messages
    /\ generating' \in BOOLEAN /\ (generating' <=> source # NoRequest)
    /\ UNCHANGED <<messages, editing, keys, connection, request, strays>>

(***************************************************************************)
(* Updates of the last message                                             *)
(***************************************************************************)
\* updateLastAssistantMessage
UpdateLast(list, updated) ==
    IF list = <<>> \/ Last(list).from # "assistant" THEN list
    ELSE [list EXCEPT ![Len(list)] = updated]

\* handleStreamUpdate
Grown(m, r) ==
    IF m.status = "error" THEN m
    ELSE [m EXCEPT !.status = "streaming", !.parts = @ \cup {r}]

\* handleStreamComplete
Completed(m) == IF m.status \in {"complete", "error"} THEN m ELSE [m EXCEPT !.status = "complete"]

\* updateAssistantMessageWithError
Failed(m, r) == [m EXCEPT !.status = "error", !.parts = {r}]

\* sendNonStreamingChat replaces what is there.
Answered(m, r) == [m EXCEPT !.status = "complete", !.parts = {r}]

\* stopGeneration
Stopped(m) == IF Stuck(m) THEN [m EXCEPT !.status = "complete"] ELSE m

(***************************************************************************)
(* Requests                                                                *)
(***************************************************************************)
\* The page was waiting, for the stream it refers to or for an answer that is not
\* streamed, which it does not know about.
Overlap ==
    IF source # NoRequest \/ \E r \in Requests : request[r] = "plain" THEN {"overlap"} ELSE {}
Stale == IF shown # messages THEN {"stale"} ELSE {}

\* sendChat, for a list that ends with the message the answer belongs to; the
\* setting may ask for a stream or for one answer.
SendChat(r, list) ==
    /\ request[r] = "unused"
    /\ strays' = strays \cup Overlap \cup Stale
    /\ \/ /\ messages' = list
          /\ request' = [request EXCEPT ![r] = "stream"]
          /\ source' = r /\ complete' = FALSE
       \/ /\ messages' = UpdateLast(list, Failed(Last(list), r))  \* stream() throws
          /\ request' = [request EXCEPT ![r] = "over"]
          /\ source' = NoRequest /\ complete' = FALSE
       \/ /\ messages' = list
          /\ request' = [request EXCEPT ![r] = "plain"]
          /\ UNCHANGED connection

\* handleSendMessage
SendMessage(r) ==
    /\ keys + 2 <= MaxKeys /\ keys' = keys + 2
    /\ SendChat(r, Append(Append(shown, User(keys + 1)), Loading(keys + 2, r)))
    /\ UNCHANGED <<shown, generating, editing>>

\* handleSubmit is disabled during a generation; a click on a suggestion is not.
Submit(r) == ~generating /\ SendMessage(r)
Suggest(r) == SendMessage(r)

\* The actions are there once the message shows something.  A part may be reasoning only,
\* or empty, for which the page has none: the model allows a few clicks more.
HasActions(m) == m.from = "user" \/ m.status = "error" \/ m.parts # {}

Regenerate(r) == \E i \in DOMAIN shown :
    /\ ~generating /\ shown[i].from = "assistant" /\ HasActions(shown[i]) /\ ~Stuck(shown[i])
    /\ keys < MaxKeys /\ keys' = keys + 1
    /\ SendChat(r, Append(SubSeq(shown, 1, i - 1), Loading(keys + 1, r)))
    /\ UNCHANGED <<shown, generating, editing>>

OpenEditor == \E i \in DOMAIN shown :
    /\ ~generating /\ HasActions(shown[i])
    /\ editing' = shown[i].key
    /\ UNCHANGED <<messages, shown, generating, keys, connection, request, strays>>

CancelEdit ==
    /\ editing # 0 /\ editing' = 0
    /\ UNCHANGED <<messages, shown, generating, keys, connection, request, strays>>

\* applyEdit without submission.
SaveEdit == \E i \in DOMAIN shown :
    /\ editing # 0 /\ shown[i].key = editing
    /\ editing' = 0 /\ messages' = shown
    /\ strays' = strays \cup Stale
    /\ UNCHANGED <<shown, generating, keys, connection, request>>

\* applyEdit with submission; an editor that is open is not disabled by a generation.
SaveAndSubmit(r) == \E i \in DOMAIN shown :
    /\ editing # 0 /\ shown[i].key = editing /\ shown[i].from = "user"
    /\ editing' = 0
    /\ keys < MaxKeys /\ keys' = keys + 1
    /\ SendChat(r, Append(SubSeq(shown, 1, i), Loading(keys + 1, r)))
    /\ UNCHANGED <<shown, generating>>

DeleteMessage == \E i \in DOMAIN shown :
    /\ ~generating /\ HasActions(shown[i])
    /\ messages' = RemoveAt(shown, i)
    /\ strays' = strays \cup Stale
    /\ UNCHANGED <<shown, generating, editing, keys, connection, request>>

\* Mutant: the connection stays open when its reference is cleared.
Mut_Stop ==
    /\ generating
    /\ source' = NoRequest
    /\ messages' = UpdateLast(messages, Stopped(Last(messages)))
    /\ UNCHANGED <<shown, generating, editing, keys, complete, request, strays>>

Stop ==
    /\ generating
    /\ source' = NoRequest
    /\ request' = IF source = NoRequest THEN request ELSE [request EXCEPT ![source] = "over"]
    /\ messages' = UpdateLast(messages, Stopped(Last(messages)))
    /\ UNCHANGED <<shown, generating, editing, keys, complete, strays>>

(***************************************************************************)
(* What the server sends                                                   *)
(***************************************************************************)
Over(r) == request' = [request EXCEPT ![r] = "over"]

Chunk(r) ==
    /\ request[r] = "stream"
    /\ messages' = UpdateLast(messages, Grown(Last(messages), r))
    /\ UNCHANGED <<shown, generating, editing, keys, connection, request, strays>>

\* [DONE]: closing this stream clears the reference, whichever stream it names.
Done(r) ==
    /\ request[r] = "stream" /\ Over(r)
    /\ complete' = TRUE /\ source' = NoRequest
    /\ messages' = UpdateLast(messages, Completed(Last(messages)))
    /\ UNCHANGED <<shown, generating, editing, keys, strays>>

\* A chunk that cannot be parsed, an error event, a status other than 200: not
\* handled when the flag says that the stream - any stream - is complete (a bad
\* chunk then changes nothing, the others still end the connection).
StreamFails(r) ==
    /\ request[r] = "stream" /\ Over(r)
    /\ IF complete THEN UNCHANGED <<messages, source>>
       ELSE source' = NoRequest /\ messages' = UpdateLast(messages, Failed(Last(messages), r))
    /\ UNCHANGED <<shown, generating, editing, keys, complete, strays>>

\* A connection closed without [DONE] reports neither completion nor error.
EndsWithoutDone(r) ==
    /\ request[r] = "stream" /\ Over(r)
    /\ strays' = strays \cup {"no end"}
    /\ UNCHANGED <<page, connection>>

PlainAnswer(r) ==
    /\ request[r] = "plain" /\ Over(r)
    /\ messages' = UpdateLast(messages, Answered(Last(messages), r))
    /\ UNCHANGED <<shown, generating, editing, keys, connection, strays>>

PlainFails(r) ==
    /\ request[r] = "plain" /\ Over(r)
    /\ messages' = UpdateLast(messages, Failed(Last(messages), r))
    /\ UNCHANGED <<shown, generating, editing, keys, connection, strays>>

NoChoice(r) ==
    /\ request[r] = "plain" /\ Over(r)
    /\ strays' = strays \cup {"no choice"}
    /\ UNCHANGED <<page, connection>>

(***************************************************************************)
(* Reloading                                                               *)
(***************************************************************************)
\* Mutant: only messages that show nothing yet are repaired.
Mut_Sanitize(list) ==
    [i \in DOMAIN list |->
        IF list[i].status = "loading" THEN [list[i] EXCEPT !.status = "error"] ELSE list[i]]

\* sanitizeMessagesOnLoad repairs the last stuck message.
Sanitize(list) == [i \in DOMAIN list |->
    IF Stuck(list[i]) /\ \A j \in DOMAIN list : Stuck(list[j]) => j <= i
    THEN [list[i] EXCEPT !.status = IF list[i].parts = {} THEN "error" ELSE "complete"]
    ELSE list[i]]

\* Mutant: the keys are numbers that start again with the page.
Mut_Reload == \E saved \in {messages, shown} :
    /\ messages' = Sanitize(saved) /\ shown' = Sanitize(saved)
    /\ generating' = FALSE /\ editing' = 0 /\ keys' = 0
    /\ source' = NoRequest /\ complete' = FALSE
    /\ request' = [r \in Requests |-> IF Live(r) THEN "over" ELSE request[r]]
    /\ UNCHANGED strays

\* An updater saves what it returns, when it is applied or when it is rendered.
\* The requests of the page that was left reach nobody any more.
Reload == \E saved \in {messages, shown} :
    /\ messages' = Sanitize(saved) /\ shown' = Sanitize(saved)
    /\ generating' = FALSE /\ editing' = 0 /\ keys' = keys
    /\ source' = NoRequest /\ complete' = FALSE
    /\ request' = [r \in Requests |-> IF Live(r) THEN "over" ELSE request[r]]
    /\ UNCHANGED strays

Click(r) == Submit(r) \/ Suggest(r) \/ Regenerate(r) \/ SaveAndSubmit(r)

Event(r) ==
    \/ Chunk(r) \/ Done(r) \/ StreamFails(r) \/ EndsWithoutDone(r)
    \/ PlainAnswer(r) \/ PlainFails(r) \/ NoChoice(r)

Next ==
    \/ \E r \in Requests : Click(r) \/ Event(r)
    \/ Render \/ OpenEditor \/ CancelEdit \/ SaveEdit \/ DeleteMessage \/ Stop \/ Reload

Spec == Init /\ [][Next]_vars

(***************************************************************************)
(* Properties                                                              *)
(***************************************************************************)
\* A message that waits for its answer is the last one, its request is under way,
\* and a stream can be stopped - unless a request was sent while another was under
\* way (a suggestion, an open editor, an answer that is not streamed), a click
\* worked on an outdated list, or a reply came without a choice or an end.
NothingStuck == strays = {} =>
    \A i \in DOMAIN messages : Stuck(messages[i]) =>
        LET r == messages[i].of IN
        /\ i = Len(messages) /\ Live(r)
        /\ request[r] = "stream" => source = r

\* With the same exceptions, no message shows text or an error of a request it was
\* not created for: updateLastAssistantMessage finds the right one.
OwnAnswers == strays = {} => \A i \in DOMAIN messages : messages[i].parts \subseteq {messages[i].of}
=============================================================================
