------------------------------ MODULE Streams ------------------------------
(***************************************************************************)
(* One question, asked of one target by the three readers of the           *)
(* repository: the worker (executor/normal-transport.ts), the runner's     *)
(* normal request (transport.py) and its native one (transport.py through  *)
(* codex-native-transport.mjs). The target sends the events of a stream    *)
(* one by one and then stops, in one way or another. An event stands for   *)
(* its type and for the text it carries; the text is "said", "other" or    *)
(* nothing.                                                                *)
(***************************************************************************)
EXTENDS Naturals, Sequences

CONSTANTS Retries,    \* retries of the run's configuration
          MaxEvents,  \* bound: events of one stream
          WorkerLimit \* MAX_RESPONSE_BYTES, in events

ASSUME StreamsAssumption == {Retries, MaxEvents, WorkerLimit} \subseteq Nat

VARIABLES head,   \* status of the response, or NoHead while connecting
          sent,   \* events of this attempt's stream
          ending, \* how the stream stopped; "open" before
          heard,  \* per reader: result of its attempt
          tries   \* per reader: attempts made

svars == <<head, sent, ending, heard, tries>>

Readers == {"worker", "normal", "native"}
Terminals == {"completed", "incomplete", "failed"}
Delta == [type |-> "delta", text |-> "said"]
Events == {Delta, [type |-> "garbage", text |-> ""], [type |-> "json", text |-> "said"]}
          \cup [type : {"completed"}, text : {"", "said", "other"}]
          \cup [type : {"incomplete", "failed"}, text : {""}]
NoHead == 0
Heads == {200, 401, 404, 429}
Endings == {"close", "cut", "reset", "silence", "unresolved"}
Broken == {"reset", "silence"}
Retryable == {408, 429, 500, 502, 503, 504}

Ok(text) == [status |-> "ok", text |-> text, category |-> "ok", again |-> FALSE]
Nothing == [Ok("") EXCEPT !.status = "reading"]
Bad(category, again) == [status |-> "error", text |-> "", category |-> category, again |-> again]

(* TransportError of the runner: a status makes it an HTTP error.          *)
RunnerError(message, status) ==
    LET category == CASE message = "invalid Responses SSE" -> "truncated_or_invalid_stream"
                      [] message # "invalid Responses SSE" /\ status # NoHead -> "upstream_http_error"
                      [] message = "timeout" /\ status = NoHead -> "timeout"
                      [] OTHER -> "connection_or_transport_error"
    IN  Bad(category, \/ status = NoHead \/ status \in Retryable
                      \/ category = "truncated_or_invalid_stream")

TerminalsOf(s) == {i \in DOMAIN s : s[i].type \in Terminals}
LastTerminal(s) == CHOOSE i \in TerminalsOf(s) : \A j \in TerminalsOf(s) : j <= i
Streamed(s) == IF \E i \in DOMAIN s : s[i].type = "delta" THEN "said" ELSE ""
Garbage(s) == \E i \in DOMAIN s : s[i].type = "garbage"
Text(s) == LET text == s[LastTerminal(s)].text IN IF text = "" THEN Streamed(s) ELSE text

(* parseSseResponse, which takes the last terminal event.                  *)
ParseSse(s) ==
    CASE Garbage(s) -> Bad("invalid_response_stream", TRUE)
      [] ~Garbage(s) /\ TerminalsOf(s) = {} -> Bad("stream_without_terminal_response", TRUE)
      [] OTHER -> LET type == s[LastTerminal(s)].type IN
                  IF type = "completed" THEN Ok(Text(s))
                  ELSE Bad("upstream_response_" \o type, TRUE)

\* Mutant of Collect: a stream without a terminal event gives its deltas.
CollectDeltas(s) == Ok(IF TerminalsOf(s) = {} THEN Streamed(s) ELSE Text(s))

(* _SSECollector.finish and what its callers make of it.                   *)
Collect(s) ==
    CASE Garbage(s) \/ TerminalsOf(s) = {} -> RunnerError("invalid Responses SSE", 200)
      [] ~Garbage(s) /\ TerminalsOf(s) # {} /\ s[LastTerminal(s)].type # "completed" ->
            Bad("response_" \o s[LastTerminal(s)].type, TRUE)
      [] OTHER -> IF {Text(s), Streamed(s)} = {"other", "said"}
                  THEN RunnerError("invalid Responses SSE", 200) ELSE Ok(Text(s))
-----------------------------------------------------------------------------
(* The worker reads to the end, or to its limit, and only then looks.      *)
WorkerHears ==
    IF ending = "unresolved" THEN Bad("target_dns_failed", FALSE)
    ELSE IF head = NoHead THEN Bad("connection_or_tls_error", TRUE)
    ELSE IF Len(sent) > WorkerLimit THEN Bad("response_too_large", FALSE)
    ELSE IF ending # "close" THEN Bad("connection_or_tls_error", TRUE)
    ELSE IF head # 200 THEN Bad("upstream_http_error", head \in Retryable)
    ELSE IF ~(sent # <<>> /\ sent[1].type = "json") THEN ParseSse(sent)
    ELSE IF Len(sent) = 1 THEN Ok(sent[1].text)
    ELSE Bad("invalid_upstream_response", TRUE)

WorkerReads == ending = "open" /\ Len(sent) <= WorkerLimit

(* _post_normal: it reads until a terminal event or an event it cannot     *)
(* parse. An exception after the headers carries their status; one in the  *)
(* body of an HTTP error is no TransportError at all.                      *)
NormalHears ==
    CASE head = NoHead -> RunnerError("URLError", head)
      [] head = 200 -> IF ending \in Broken THEN RunnerError("timeout", head) ELSE Collect(sent)
      [] OTHER -> IF ending \in Broken THEN Bad("local_processing", FALSE)
                  ELSE RunnerError("upstream HTTP error", head)

(* sendRawHttp and _post_native: the child exits with an error when the    *)
(* connection fails, and with a report of all it has received otherwise.   *)
NativeHears ==
    CASE head = NoHead \/ ending \in Broken -> RunnerError("native transport failed", NoHead)
      [] head \notin {NoHead, 200} /\ ending \notin Broken ->
            RunnerError("native upstream HTTP error", head)
      [] OTHER -> Collect(sent)

NormalReads == ending = "open" /\ TerminalsOf(sent) = {} /\ ~Garbage(sent)
NativeReads == ending = "open" /\ TerminalsOf(sent) = {}

Hears(r) == CASE r = "worker" -> WorkerHears [] r = "normal" -> NormalHears
              [] OTHER -> NativeHears
Reads(r) == CASE r = "worker" -> WorkerReads [] r = "normal" -> NormalReads
              [] OTHER -> NativeReads
-----------------------------------------------------------------------------
StreamsInit ==
    /\ head = NoHead /\ sent = <<>> /\ ending = "open"
    /\ heard = [r \in Readers |-> Nothing]
    /\ tries = [r \in Readers |-> 1]

Reading == {r \in Readers : heard[r].status = "reading"}

Respond(status) ==
    /\ head = NoHead /\ ending = "open" /\ head' = status
    /\ UNCHANGED <<sent, ending, heard, tries>>

Send(e) ==
    /\ head = 200 /\ ending = "open" /\ Len(sent) < MaxEvents
    /\ \A r \in Reading : Reads(r)
    /\ sent' = Append(sent, e)
    /\ UNCHANGED <<head, ending, heard, tries>>

Stop(how) ==
    /\ ending = "open"
    /\ how \in {"close", "cut"} => head # NoHead
    /\ how = "unresolved" => head = NoHead
    /\ \A r \in Reading : Reads(r)
    /\ ending' = how
    /\ UNCHANGED <<head, sent, heard, tries>>

Hear(r) ==
    /\ r \in Reading /\ ~Reads(r)
    /\ heard' = [heard EXCEPT ![r] = Hears(r)]
    /\ UNCHANGED <<head, sent, ending, tries>>

Done(r) ==
    /\ r \notin Reading
    /\ ~heard[r].again \/ tries[r] > Retries

(* #executeJob and _execute_job: the readers that may ask again do.        *)
AskAgain ==
    /\ Reading = {} /\ \E r \in Readers : ~Done(r)
    /\ head' = NoHead /\ sent' = <<>> /\ ending' = "open"
    /\ heard' = [r \in Readers |-> IF Done(r) THEN heard[r] ELSE Nothing]
    /\ tries' = [r \in Readers |-> IF Done(r) THEN tries[r] ELSE tries[r] + 1]

StreamsNext ==
    \/ \E status \in Heads : Respond(status)
    \/ \E e \in Events : Send(e)
    \/ \E how \in Endings : Stop(how)
    \/ \E r \in Readers : Hear(r)
    \/ AskAgain

StreamsSpec == StreamsInit /\ [][StreamsNext]_svars
-----------------------------------------------------------------------------
(* Readers of the attempt that is under way or just over.                  *)
Latest == {r \in Readers \ Reading : \A q \in Readers : tries[q] <= tries[r]}

(* A stream the protocol allows: it ends, at most once, with its terminal  *)
(* event, which says what the stream said.                                 *)
Proper ==
    /\ ending = "close" /\ Len(sent) <= WorkerLimit /\ ~Garbage(sent)
    /\ \A i \in DOMAIN sent : /\ sent[i].type # "json"
                              /\ sent[i].text # "other"
                              /\ sent[i].type \in Terminals => i = Len(sent)

(* Whatever a target answers properly, or refuses, is the same to the      *)
(* worker and to both readers of the runner: they take the same text for   *)
(* the answer, or none does, and they agree on asking again.               *)
ReadersAgree ==
    Proper => \A r, q \in Latest : /\ heard[r].status = heard[q].status
                                   /\ heard[r].text = heard[q].text
                                   /\ heard[r].again = heard[q].again
=============================================================================
