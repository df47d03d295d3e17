----------------------------- MODULE GiapiCalls -----------------------------
(***************************************************************************)
(* The calls of ServicesUtil, DataUtil and GeminiUtil that send something  *)
(* to the GMP, what distinguishes the methods behind them, the exceptions  *)
(* they throw, and the programs of the repository that make them.          *)
(***************************************************************************)
EXTENDS Naturals

(***************************************************************************)
(* The exceptions.  Each class is the set of the classes of handlers that  *)
(* catch it: its own and those it is derived from.                         *)
(***************************************************************************)
GiapiException         == {"GiapiException"}
CommunicationException == {"CommunicationException"} \cup GiapiException
GmpException           == {"GmpException"} \cup CommunicationException
PostException          == {"PostException"} \cup CommunicationException

\* Mutation of TimeoutException: derived from std::exception.
TimeoutExceptionAlone == {"TimeoutException"}

TimeoutException       == {"TimeoutException"} \cup GiapiException

\* The handlers that catch an exception.
HandlersOf ==
  [GiapiException         |-> GiapiException,
   CommunicationException |-> CommunicationException,
   GmpException           |-> GmpException,
   PostException          |-> PostException,
   TimeoutException       |-> TimeoutException]

Exceptions == DOMAIN HandlersOf

-----------------------------------------------------------------------------
(* The calls, by the class that offers them.  Each of these classes has a  *)
(* singleton, and the singleton its sessions.                              *)

ServicesUtil == {"property", "log"}
DataUtil     == {"event", "file"}
GeminiUtil   == {"names", "pcs", "context", "channel", "offset", "notify"}

Kinds     == ServicesUtil \cup DataUtil \cup GeminiUtil
Utilities == {"services", "data", "gemini"}

Utility(k) == IF k \in ServicesUtil THEN "services"
              ELSE IF k \in DataUtil THEN "data" ELSE "gemini"

\* What can be wrong with the arguments of a call that posts something.
Flaws == {"name", "label", "filename", "level", "size"}

\* What an answer contains: what was asked for; too few values, or an offset
\* that was not applied; something that cannot be parsed; another message type.
Contents == {"good", "refused", "malformed", "other"}

\* "OK" and "ERROR" are the status codes 0 and -1.
Results == {"OK", "ERROR", "1"} \cup Exceptions

-----------------------------------------------------------------------------
(***************************************************************************)
(* The methods.  Each rejects some arguments, turns a CMSException of the  *)
(* session into an exception of the library, makes something of an answer, *)
(* or of none when it waited for one, and deletes its message once at some *)
(* point: "sent", "answered" or "never".                                   *)
(***************************************************************************)
Method(rejects, rejected, fails, answers, unanswered, deletes) ==
  [rejects |-> rejects, rejected |-> rejected, fails |-> fails,
   answers |-> answers, unanswered |-> unanswered, deletes |-> deletes]

NoAnswers == [c \in Contents |-> {}]

Answers(good, refused, malformed, other) ==
  [good |-> good, refused |-> refused, malformed |-> malformed, other |-> other]

\* A method that posts a message and waits for nothing.
Posts(rejects, rejected) ==
  Method(rejects, rejected, "CommunicationException", NoAnswers, "OK", "sent")

\* A method that sends a request, and what it makes of the answers to it.
Asks(fails, answers) == Method({}, "OK", fails, answers, "TimeoutException", "sent")

\* An event without a name or with a blank label is not sent.
PostEvent == Posts({"name", "label"}, "ERROR")

\* Mutation of SendFileEventMessage: only the file name is looked at.
SendFileEventMessageUnlabelled == Posts({"filename"}, "ERROR")

SendFileEventMessage == Posts({"filename", "label"}, "ERROR")

\* A level that is none of the three returns before anything is sent, and
\* nothing is returned in either case.
PostLog == Posts({"level"}, "OK")

PostPcsUpdate == Posts({"size"}, "ERROR")

GetProperty == Asks("PostException", Answers({"OK"}, {}, {}, {}))

\* The only request that lives until it is answered.
RequestChannels ==
  Method({}, "OK", "PostException", Answers({"OK"}, {}, {}, {}),
         "TimeoutException", "answered")

\* A context needs 39 values.  Reading past the end of the message throws, in
\* the same try block.
FetchContext ==
  Asks("CommunicationException",
       Answers({"OK"}, {"ERROR"}, {"CMSException"}, {"ERROR"}))

\* A channel whose header cannot be parsed is returned as a null pointer.
GetChannel ==
  Asks("CommunicationException",
       Answers({"OK"}, {}, {"OK", "CMSException"}, {"GiapiException"}))

\* The number in front of the separator is returned, 1 when the offset was
\* applied and 0 when not, and 0 too when there is no separator.  Text that is
\* no number ends the program.
SendOffset ==
  Asks("CommunicationException",
       Answers({"1"}, {"OK"}, {"OK", "crash"}, {"ERROR"}))

\* Mutation of CallbackOffset: the callback gets no status after a timeout.
CallbackOffsetUnreported ==
  Method({}, "OK", "CommunicationException",
         Answers({"1"}, {"OK"}, {"ERROR", "crash"}, {"crash"}), "none", "never")

\* With a callback the answer is waited for in a detached thread, which has no
\* handler, takes another type of message for text, and reports a timeout as an
\* error.
CallbackOffset ==
  Method({}, "OK", "CommunicationException",
         Answers({"1"}, {"OK"}, {"ERROR", "crash"}, {"crash"}), "ERROR", "never")

MethodOf ==
  [property |-> GetProperty, log |-> PostLog,
   event |-> PostEvent, file |-> SendFileEventMessage,
   names |-> RequestChannels, pcs |-> PostPcsUpdate, context |-> FetchContext,
   channel |-> GetChannel, offset |-> SendOffset, notify |-> CallbackOffset]

OneWay == {"log", "event", "file", "pcs"}

-----------------------------------------------------------------------------
(***************************************************************************)
(* The programs.  A call is of some kind, with or without a timeout, with  *)
(* these flaws in its arguments, inside a try block with these handlers.   *)
(***************************************************************************)
CallRecords ==
  [kind: Kinds, timed: BOOLEAN, flaws: SUBSET Flaws, catches: SUBSET Exceptions]

CallsOf(kinds, flaws, catches) ==
  [kind: kinds, timed: {TRUE}, flaws: flaws, catches: {catches}]

services     == CallsOf({"property"}, {{}}, {"GmpException"})
logging      == CallsOf({"log"}, {{}}, {"GmpException"})
obsevent     == CallsOf({"event"}, {{}, {"label"}}, {"GmpException"})
fileevents   == CallsOf({"file"}, SUBSET {"filename", "label"}, {"GmpException"})
igrins2obssimulator ==
  CallsOf({"property"}, {{}}, {"GmpException"})
    \cup CallsOf({"event"}, {{}}, {"GmpException"})
tcscontext   == CallsOf({"context"}, {{}}, {"TimeoutException", "GmpException"})
epicsget     == CallsOf({"channel"}, {{}}, {"GmpException"})
epicssubscription == CallsOf({"names"}, {{}}, {"GmpException"})
pcsupdater   == CallsOf({"pcs"}, {{}}, {"GiapiException"})
gpim1zernikes == CallsOf({"pcs"}, {{}}, {"GiapiException"})
tcsApplyOffset         == CallsOf({"offset"}, {{}}, {"GiapiException"})
tcsApplyOffsetCallback == CallsOf({"notify"}, {{}}, {"GiapiException"})

Examples ==
  {services, logging, obsevent, fileevents, igrins2obssimulator, tcscontext, epicsget,
   epicssubscription, pcsupdater, gpim1zernikes, tcsApplyOffset, tcsApplyOffsetCallback}

\* A program that catches whatever the library throws, with one flaw at most in what
\* it passes; it asks for properties without a timeout.
CallsOfCareful(kinds, timed) ==
  UNION {[kind:    {k},
          timed:   timed,
          flaws:   {{}} \cup {{f} : f \in MethodOf[k].rejects},
          catches: {{"GiapiException"}}] : k \in kinds}

Careful ==
  CallsOfCareful(Kinds \ {"property"}, {TRUE}) \cup CallsOfCareful({"property"}, {FALSE})

Programs == Examples \cup {Careful}

ProgramCalls == UNION Programs
=============================================================================
