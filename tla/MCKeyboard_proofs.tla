-------------------------- MODULE MCKeyboard_proofs -------------------------
(***************************************************************************)
(* Proofs about the way to the keyboard, for any payloads with any page    *)
(* counts, any handle values, any transfers and any driver, and for any    *)
(* number of accounts and hold time: the session (F108Upload), the         *)
(* transport below it (Win32Io), the playlist above it (Playlist), and the *)
(* three together.                                                         *)
(***************************************************************************)
EXTENDS MCKeyboard, FiniteSums

-----------------------------------------------------------------------------
(* The session.  What the host believes and what the keyboard has are two  *)
(* states, with a report, a readback or a page between them.  The inductive*)
(* invariant says for each place of the session how far apart the two may  *)
(* be.                                                                     *)

PageOf == Contents \X (Nat \ {0})

(* The first n pages of a payload. *)
FirstPages(c, n) == [i \in 1 .. n |-> <<c, i>>]

(* While a command is out, its answer is on the way, and at no other time.  *)
AnswerInv ==
    /\ waiting => pc \in Commands \union {"page"}
    /\ waiting /\ pc \in Commands => answer \in {"ack", "nack"}
    /\ ~(waiting /\ pc \in Commands) => answer = "none"

(* Only an upload sends pages, and only a clock session the clock's data.   *)
KindInv ==
    /\ pc \in {"header", "page"} => content # NoContent
    /\ pc \in {"clock-init", "clock-data"} => content = NoContent
    /\ pc \in {"begin", "header"} => sent = 0
    /\ pc = "page" => sent < Pages[content]

(* No page is on its way but the one that the host waits for. *)
InboxInv ==
    /\ pc \notin {"closed", "page"} => inbox = NoPage
    /\ pc = "page" /\ ~waiting => inbox = NoPage /\ ack = "none"
    /\ pc = "page" /\ inbox # NoPage => inbox = <<content, sent + 1>> /\ ack = "none"
    /\ pc \notin {"closed", "page"} => ack = "none"

(* What the keyboard has, at each place of a session: it is prepared for    *)
(* this session since the begin, it has exactly the pages that were        *)
(* acknowledged and at most one more, whose good ACK is on its way, and    *)
(* once it has applied them the flash is this payload.                     *)
KeyboardInv ==
    /\ pc = "begin" /\ answer = "ack" => mode = "begun" /\ taken = <<>>
    /\ pc \in {"header", "clock-init"} /\ answer # "ack" => mode = "begun" /\ taken = <<>>
    /\ pc = "header" /\ answer = "ack" =>
          mode = "lcd" /\ total = Pages[content] /\ taken = <<>>
    /\ pc \notin {"closed", "begin"} /\ content = NoContent => mode # "lcd"
    /\ pc = "page" =>
          /\ mode = "lcd" /\ total = Pages[content]
          /\ taken = FirstPages(content, IF ack = "good" THEN sent + 1 ELSE sent)
    /\ pc = "apply" /\ content # NoContent /\ answer # "ack" =>
          mode = "lcd" /\ taken = Whole(content)
    /\ pc = "apply" /\ content # NoContent /\ answer = "ack" => flash = Whole(content)

(* The inductive invariant. *)
UploadInv ==
    /\ TypeOK
    /\ AnswerInv /\ KindInv /\ InboxInv /\ KeyboardInv
    /\ FlashFollowsSessions

-----------------------------------------------------------------------------
(* The pages of a payload, and one more of them.                           *)
LEMMA FirstPagesTyped ==
    ASSUME NEW c \in Contents, NEW n \in Nat
    PROVE  FirstPages(c, n) \in Seq(PageOf) /\ Len(FirstPages(c, n)) = n
BY DEF FirstPages, PageOf

(* Before the first page there is none. *)
LEMMA NoPages == \A c \in Contents : FirstPages(c, 0) = <<>>
BY DEF FirstPages

(* The page that follows makes the first pages one longer. *)
LEMMA OneMorePage ==
    ASSUME NEW c \in Contents, NEW n \in Nat
    PROVE  Append(FirstPages(c, n), <<c, n + 1>>) = FirstPages(c, n + 1)
BY DEF FirstPages

(* A page is never mistaken for none. *)
LEMMA PageIsNotNoPage == \A p \in PageOf : p # NoPage
BY DEF PageOf, NoPage

-----------------------------------------------------------------------------
(* The sessions start with nothing on the way and the factory image.        *)
LEMMA UploadInit == Init => UploadInv
<1> SUFFICES ASSUME Init
             PROVE  UploadInv
    OBVIOUS
<1>1. <<>> \in Seq(Contents \X (Nat \ {0}))
    OBVIOUS
<1>2. TypeOK
    BY <1>1 DEF Init, TypeOK, Commands, NoPage
<1>3. AnswerInv /\ KindInv /\ InboxInv /\ KeyboardInv
    BY DEF Init, AnswerInv, KindInv, InboxInv, KeyboardInv, Commands
<1>4. FlashFollowsSessions
    BY DEF Init, FlashFollowsSessions, FlashWhole, DoneMeansFlashed
<1> QED
    BY <1>2, <1>3, <1>4 DEF UploadInv

(* Every command and every page leaves values of the right kinds behind.    *)
LEMMA TypeNext == TypeOK /\ KindInv /\ [Next]_vars => TypeOK'
<1> SUFFICES ASSUME TypeOK, KindInv, [Next]_vars
             PROVE  TypeOK'
    OBVIOUS
<1> USE PagesAssumption DEF TypeOK, Commands
<1>1. ASSUME NEW c \in Contents \union {NoContent}, Open(c)
      PROVE  TypeOK'
    BY <1>1 DEF Open
<1>2. CASE ReadBack \/ ReadBackRefused \/ ReadAckRefused \/ SessionFails \/ SessionDone
    BY <1>2 DEF ReadBack, ReadBackRefused, ReadAckRefused, SessionFails, SessionDone, EndSession, After
<1>3. CASE WritePage
    BY <1>3 DEF WritePage, KindInv
<1>4. CASE ReadAck
  <2>1. sent' \in Nat /\ pc' \in {"apply", "page"}
      BY <1>4 DEF ReadAck
  <2> QED
      BY <1>4, <2>1 DEF ReadAck
<1>5. ASSUME NEW cmd \in Commands, Refuse(cmd)
      PROVE  TypeOK'
    BY <1>5 DEF Refuse, Sent
<1>6. CASE PerformBegin
  <2>1. <<>> \in Seq(Contents \X (Nat \ {0}))
      OBVIOUS
  <2> QED
      BY <1>6, <2>1 DEF PerformBegin, Sent
<1>7. CASE PerformHeader
    BY <1>7 DEF PerformHeader, Sent, KindInv
<1>8. ASSUME NEW cmd \in {"clock-init", "clock-data"}, PerformClock(cmd)
      PROVE  TypeOK'
    BY <1>8 DEF PerformClock, Sent
<1>9. CASE PerformApply
    BY <1>9 DEF PerformApply, Sent
<1>10. CASE TakePage
    BY <1>10 DEF TakePage, Answered, host, NoPage
<1>11. CASE RefusePage \/ PageLost
    BY <1>11 DEF RefusePage, PageLost, Answered, host
<1>12. CASE UNCHANGED vars
    BY <1>12 DEF vars, host, keyboard
<1> QED
    BY <1>1, <1>2, <1>3, <1>4, <1>5, <1>6, <1>7, <1>8, <1>9, <1>10, <1>11, <1>12
    DEF Next, Host, Keyboard

-----------------------------------------------------------------------------
(* An answer comes only to a command that is out. *)
LEMMA AnswerNext == UploadInv /\ [Next]_vars => AnswerInv'
<1> SUFFICES ASSUME UploadInv, [Next]_vars
             PROVE  AnswerInv'
    OBVIOUS
<1> USE DEF UploadInv, TypeOK, AnswerInv, Commands
<1>1. ASSUME NEW c \in Contents \union {NoContent}, Open(c)
      PROVE  AnswerInv'
    BY <1>1 DEF Open
<1>2. CASE ReadBack
    BY <1>2 DEF ReadBack, After
<1>3. CASE ReadBackRefused \/ ReadAckRefused \/ SessionFails \/ SessionDone
    BY <1>3 DEF ReadBackRefused, ReadAckRefused, SessionFails, SessionDone, EndSession
<1>4. CASE WritePage
    BY <1>4 DEF WritePage
<1>5. CASE ReadAck
    BY <1>5 DEF ReadAck
<1>6. ASSUME NEW cmd \in Commands, NEW status \in {"ack", "nack"}, Sent(cmd, status)
      PROVE  AnswerInv'
    BY <1>6 DEF Sent
<1>7. CASE TakePage \/ RefusePage \/ PageLost
    BY <1>7 DEF TakePage, RefusePage, PageLost, host
<1>8. CASE UNCHANGED vars
    BY <1>8 DEF vars, host, keyboard
<1> QED
    BY <1>1, <1>2, <1>3, <1>4, <1>5, <1>6, <1>7, <1>8
    DEF Next, Host, Keyboard, Refuse, PerformBegin, PerformHeader, PerformClock, PerformApply

(* The kind of a session decides which commands follow each other. *)
LEMMA KindNext == UploadInv /\ [Next]_vars => KindInv'
<1> SUFFICES ASSUME UploadInv, [Next]_vars
             PROVE  KindInv'
    OBVIOUS
<1> USE PagesAssumption DEF UploadInv, TypeOK, AnswerInv, KindInv, Commands
<1>1. ASSUME NEW c \in Contents \union {NoContent}, Open(c)
      PROVE  KindInv'
    BY <1>1 DEF Open
<1>2. CASE ReadBack
    BY <1>2 DEF ReadBack, After
<1>3. CASE ReadBackRefused \/ ReadAckRefused \/ SessionFails \/ SessionDone
    BY <1>3 DEF ReadBackRefused, ReadAckRefused, SessionFails, SessionDone, EndSession
<1>4. CASE WritePage
    BY <1>4 DEF WritePage
<1>5. CASE ReadAck
    BY <1>5 DEF ReadAck
<1>6. ASSUME NEW cmd \in Commands, NEW status \in {"ack", "nack"}, Sent(cmd, status)
      PROVE  KindInv'
    BY <1>6 DEF Sent
<1>7. CASE TakePage \/ RefusePage \/ PageLost
    BY <1>7 DEF TakePage, RefusePage, PageLost, host
<1>8. CASE UNCHANGED vars
    BY <1>8 DEF vars, host, keyboard
<1> QED
    BY <1>1, <1>2, <1>3, <1>4, <1>5, <1>6, <1>7, <1>8
    DEF Next, Host, Keyboard, Refuse, PerformBegin, PerformHeader, PerformClock, PerformApply

(* One page at a time, and its ACK before anything else. *)
LEMMA InboxNext == UploadInv /\ [Next]_vars => InboxInv'
<1> SUFFICES ASSUME UploadInv, [Next]_vars
             PROVE  InboxInv'
    OBVIOUS
<1> USE DEF UploadInv, TypeOK, AnswerInv, KindInv, InboxInv, Commands
<1>1. ASSUME NEW c \in Contents \union {NoContent}, Open(c)
      PROVE  InboxInv'
    BY <1>1 DEF Open
<1>2. CASE ReadBack
    BY <1>2 DEF ReadBack, After
<1>3. CASE ReadBackRefused \/ ReadAckRefused \/ SessionFails \/ SessionDone
    BY <1>3 DEF ReadBackRefused, ReadAckRefused, SessionFails, SessionDone, EndSession
<1>4. CASE WritePage
    BY <1>4 DEF WritePage
<1>5. CASE ReadAck
    BY <1>5 DEF ReadAck
<1>6. ASSUME NEW cmd, NEW status, Sent(cmd, status), cmd # "page"
      PROVE  InboxInv'
    BY <1>6 DEF Sent
<1>7. CASE TakePage \/ RefusePage
    BY <1>7 DEF TakePage, RefusePage, Answered, host
<1>8. CASE PageLost
    BY <1>8 DEF PageLost, host
<1>9. CASE UNCHANGED vars
    BY <1>9 DEF vars, host, keyboard
<1> QED
    BY <1>1, <1>2, <1>3, <1>4, <1>5, <1>6, <1>7, <1>8, <1>9
    DEF Next, Host, Keyboard, Refuse, PerformBegin, PerformHeader, PerformClock, PerformApply

-----------------------------------------------------------------------------
(* Host and keyboard keep up with each other: commands change what the      *)
(* keyboard is prepared for, pages what it has.                            *)
LEMMA KeyboardInvNext == UploadInv /\ [Next]_vars => KeyboardInv'
<1> SUFFICES ASSUME UploadInv, [Next]_vars
             PROVE  KeyboardInv'
    OBVIOUS
<1> USE PagesAssumption
    DEF UploadInv, TypeOK, AnswerInv, KindInv, InboxInv, KeyboardInv, Commands
<1>1. ASSUME NEW c \in Contents \union {NoContent}, Open(c)
      PROVE  KeyboardInv'
    BY <1>1 DEF Open
<1>2. CASE ReadBack
  <2>1. CASE pc = "header"
      BY <1>2, <2>1, NoPages DEF ReadBack, After
  <2>2. CASE pc \in Commands \ {"header"}
      BY <1>2, <2>2 DEF ReadBack, After
  <2> QED
      BY <1>2, <2>1, <2>2 DEF ReadBack
<1>3. CASE ReadBackRefused \/ ReadAckRefused \/ SessionFails \/ SessionDone
    BY <1>3 DEF ReadBackRefused, ReadAckRefused, SessionFails, SessionDone, EndSession
<1>4. CASE WritePage
    BY <1>4 DEF WritePage
<1>5. CASE ReadAck
  <2>1. taken' = FirstPages(content', sent') /\ mode' = "lcd" /\ total' = Pages[content']
      BY <1>5 DEF ReadAck
  <2>2. CASE sent' = Pages[content]
      BY <1>5, <2>1, <2>2 DEF ReadAck, Whole, FirstPages
  <2>3. CASE sent' # Pages[content]
      BY <1>5, <2>1, <2>3 DEF ReadAck
  <2> QED
      BY <2>2, <2>3
<1>6. ASSUME NEW cmd \in Commands, Refuse(cmd)
      PROVE  KeyboardInv'
    BY <1>6 DEF Refuse, Sent
<1>7. CASE PerformBegin \/ PerformHeader
    BY <1>7 DEF PerformBegin, PerformHeader, Sent
<1>8. ASSUME NEW cmd \in {"clock-init", "clock-data"}, PerformClock(cmd)
      PROVE  KeyboardInv'
    BY <1>8 DEF PerformClock, Sent
<1>9. CASE PerformApply
    BY <1>9 DEF PerformApply, Sent
<1>10. CASE TakePage
    BY <1>10, OneMorePage DEF TakePage, Answered, host
<1>11. CASE RefusePage \/ PageLost
    BY <1>11 DEF RefusePage, PageLost, Answered, host
<1>12. CASE UNCHANGED vars
    BY <1>12 DEF vars, host, keyboard
<1> QED
    BY <1>1, <1>2, <1>3, <1>4, <1>5, <1>6, <1>7, <1>8, <1>9, <1>10, <1>11, <1>12
    DEF Next, Host, Keyboard

-----------------------------------------------------------------------------
(* Only an apply that has a payload whole writes the flash. *)
LEMMA FlashNext == UploadInv /\ [Next]_vars => FlashFollowsSessions'
<1> SUFFICES ASSUME UploadInv, [Next]_vars
             PROVE  FlashWhole' /\ DoneMeansFlashed'
    BY DEF FlashFollowsSessions
<1> USE DEF UploadInv, FlashFollowsSessions
<1>1. CASE PerformApply
  <2>1. mode = "lcd" => content # NoContent /\ flash' = Whole(content)
      BY <1>1 DEF PerformApply, Sent, KeyboardInv, KindInv, AnswerInv, TypeOK
  <2>2. pc' = "apply" /\ content \in Contents \union {NoContent}
      BY <1>1 DEF PerformApply, Sent, TypeOK
  <2>3. mode # "lcd" => UNCHANGED flash
      BY <1>1 DEF PerformApply
  <2> QED
      BY <2>1, <2>2, <2>3 DEF FlashWhole, DoneMeansFlashed, Whole
<1>2. CASE ReadBack
  <2>1. UNCHANGED <<flash, content>> /\ (pc' = "done" => pc = "apply" /\ answer = "ack")
      BY <1>2 DEF ReadBack, After, Commands
  <2> QED
      BY <2>1 DEF FlashWhole, DoneMeansFlashed, Whole, KeyboardInv
<1>3. ASSUME UNCHANGED flash, pc' = "done" => UNCHANGED <<pc, content>>
      PROVE  FlashWhole' /\ DoneMeansFlashed'
    BY <1>3 DEF FlashWhole, DoneMeansFlashed, Whole
<1>4. ASSUME NEW c \in Contents \union {NoContent}, Open(c)
      PROVE  UNCHANGED flash /\ pc' # "done"
    BY <1>4 DEF Open
<1>5. CASE WritePage \/ ReadAck \/ ReadAckRefused \/ ReadBackRefused \/ SessionFails
             \/ SessionDone \/ TakePage \/ RefusePage \/ PageLost
    BY <1>5, <1>3
    DEF WritePage, ReadAck, ReadAckRefused, ReadBackRefused, SessionFails, SessionDone,
        EndSession, TakePage, RefusePage, PageLost, host
<1>6. CASE PerformBegin \/ PerformHeader \/ (\E cmd \in Commands : Refuse(cmd))
             \/ \E cmd \in {"clock-init", "clock-data"} : PerformClock(cmd)
    BY <1>6, <1>3 DEF PerformBegin, PerformHeader, Refuse, PerformClock, Sent
<1>7. CASE UNCHANGED vars
    BY <1>7, <1>3 DEF vars, host, keyboard
<1> QED
    BY <1>1, <1>2, <1>3, <1>4, <1>5, <1>6, <1>7 DEF Next, Host, Keyboard

(* The invariant holds in every session, whichever step of it fails. *)
THEOREM UploadInvariant == Spec => []UploadInv
<1>1. UploadInv /\ [Next]_vars => UploadInv'
    BY TypeNext, AnswerNext, KindNext, InboxNext, KeyboardInvNext, FlashNext DEF UploadInv
<1> QED
    BY UploadInit, <1>1, PTL DEF Spec

(* The variables hold their kinds of values, in every session. *)
THEOREM TypeCorrect == Spec => []TypeOK
<1>1. UploadInv => TypeOK
    BY DEF UploadInv
<1> QED
    BY UploadInvariant, <1>1, PTL

(* The flash holds the factory image or one payload whole, and an upload    *)
(* that ends without an exception has put its own there (protocol.py).      *)
THEOREM FlashFollowsSessionsCorrect == Spec => []FlashFollowsSessions
<1>1. UploadInv => FlashFollowsSessions
    BY DEF UploadInv
<1> QED
    BY UploadInvariant, <1>1, PTL

-----------------------------------------------------------------------------
(* The refinement of FlashTransfer.                                        *)

Stage == CASE pc = "closed"        -> "none"
           [] pc # "closed" /\ content = NoContent -> "clock"
           [] OTHER -> IF pc = "done" \/ (pc = "apply" /\ answer = "ack")
                       THEN "settle" ELSE "write"

(* The stage of the abstract transfer, place by place. *)
LEMMA StageIs ==
    /\ pc = "closed" => Stage = "none"
    /\ pc # "closed" /\ content = NoContent => Stage = "clock"
    /\ pc # "closed" /\ content # NoContent =>
          Stage = IF pc = "done" \/ (pc = "apply" /\ answer = "ack")
                  THEN "settle" ELSE "write"
BY DEF Stage

(* Every step of a session is one of FlashTransfer's, or none of its concern. *)
LEMMA StepTransfers ==
    ASSUME UploadInv, [Next]_vars
    PROVE  \/ Stage = "none" /\ Stage' \in {"write", "clock"} /\ UNCHANGED writes
           \/ Stage = "write" /\ Stage' = "settle" /\ writes' = writes + 1
           \/ Stage = "settle" /\ Stage' = "none" /\ UNCHANGED writes
           \/ Stage \in {"write", "clock"} /\ Stage' = "none" /\ UNCHANGED writes
           \/ UNCHANGED <<Stage, writes>>
<1> DEFINE Step == \/ Stage = "none" /\ Stage' \in {"write", "clock"} /\ UNCHANGED writes
                   \/ Stage = "write" /\ Stage' = "settle" /\ writes' = writes + 1
                   \/ Stage = "settle" /\ Stage' = "none" /\ UNCHANGED writes
                   \/ Stage \in {"write", "clock"} /\ Stage' = "none" /\ UNCHANGED writes
                   \/ UNCHANGED <<Stage, writes>>
<1>1. ASSUME NEW c \in Contents \union {NoContent}, Open(c)
      PROVE  Step
    BY <1>1 DEF Open, Stage
<1>2. CASE ReadBackRefused \/ ReadAckRefused \/ SessionFails \/ SessionDone
  <2>1. pc # "closed" /\ pc' = "closed" /\ UNCHANGED writes
      BY <1>2 DEF ReadBackRefused, ReadAckRefused, SessionFails, SessionDone, EndSession, Commands
  <2> QED
      BY <2>1 DEF Stage
<1>3. CASE ReadBack
    BY <1>3 DEF ReadBack, After, Commands, Stage
<1>4. CASE PerformApply
  <2>1. CASE content = NoContent
      BY <1>4, <2>1 DEF PerformApply, Sent, Stage, UploadInv, KeyboardInv
  <2>2. CASE content # NoContent
      BY <1>4, <2>2 DEF PerformApply, Sent, Stage, UploadInv, KeyboardInv, AnswerInv
  <2> QED
      BY <2>1, <2>2
<1>5. CASE WritePage \/ ReadAck
    BY <1>5 DEF WritePage, ReadAck, Stage, UploadInv, AnswerInv, Commands
<1>6. ASSUME NEW cmd \in Commands, NEW status \in {"ack", "nack"}, Sent(cmd, status),
             cmd # "apply" \/ status = "nack", UNCHANGED writes
      PROVE  Step
    BY <1>6 DEF Sent, Stage, UploadInv, AnswerInv
<1>7. CASE TakePage \/ RefusePage \/ PageLost \/ UNCHANGED vars
    BY <1>7 DEF TakePage, RefusePage, PageLost, vars, host, keyboard, Stage
<1> QED
    BY <1>1, <1>2, <1>3, <1>4, <1>5, <1>6, <1>7
    DEF Next, Host, Keyboard, Refuse, PerformBegin, PerformHeader, PerformClock, Commands

(* A session with all its failures is what FlashWear takes it for: at most  *)
(* one flash write, none without success, none by the clock.               *)
THEOREM TransferImplemented == Spec => ImplementsTransfer
<1>1. Init => Transfer!TransferInit
    BY DEF Init, Transfer!TransferInit
<1>2. UploadInv /\ [Next]_vars => [Transfer!TransferNext]_(Transfer!transferVars)
    BY StepTransfers
    DEF Stage, Transfer!TransferNext, Transfer!Start, Transfer!Apply, Transfer!Settle,
        Transfer!GiveUp, Transfer!transferVars
<1> QED
    BY <1>1, <1>2, UploadInvariant, PTL DEF Spec, ImplementsTransfer, Transfer!TransferSpec

-----------------------------------------------------------------------------
(* The transport below it (Win32Io), for any set of handle values, any      *)
(* number of transfers and any driver.                                      *)

(* It starts with every kind in place. *)
LEMMA IoTypeInit == Transport!Init => Transport!TypeOK
BY DEF Transport!Init, Transport!TypeOK, Transport!Busy, Transport!ReaperValues

(* Closing handles, and freeing the storage of a transfer. *)
LEMMA ClosedTyped ==
    ASSUME Transport!TypeOK, NEW S
    PROVE  Transport!Closed(S) \in [Handles -> {"free", "feature", "lcd", "event"}]
BY DEF Transport!TypeOK, Transport!Closed

(* A transfer that is freed keeps the kinds, *)
LEMMA FreedTyped ==
    ASSUME Transport!TypeOK, NEW i \in Ios, Transport!Freed(i)
    PROVE  /\ storage' \in [Ios -> {"none", "frame", "retained", "freed"}]
           /\ target' \in [Ios -> Handles \union {NoHandle}]
           /\ event' \in [Ios -> Handles \union {NoHandle}]
BY DEF Transport!TypeOK, Transport!Freed

(* so do the steps of a session, *)
LEMMA SessionTyped == Transport!TypeOK /\ Transport!Session => Transport!TypeOK'
<1> SUFFICES ASSUME Transport!TypeOK, Transport!Session
             PROVE  Transport!TypeOK'
    OBVIOUS
<1> USE DEF Transport!TypeOK, Transport!Free, Transport!requests, Transport!quarantine
<1>1. ASSUME NEW h \in Handles, Transport!OpenFeature(h) \/ Transport!OpenLcd(h)
      PROVE  Transport!TypeOK'
    BY <1>1 DEF Transport!OpenFeature, Transport!OpenLcd
<1>2. CASE Transport!Close
    BY <1>2, ClosedTyped DEF Transport!Close
<1>3. ASSUME NEW i \in Ios, NEW e \in Handles, Transport!Begin(i, e)
      PROVE  Transport!TypeOK'
    BY <1>3 DEF Transport!Begin, Transport!Busy
<1> QED
    BY <1>1, <1>2, <1>3 DEF Transport!Session

(* those of a transfer *)
LEMMA TransferTyped ==
    ASSUME Transport!TypeOK, NEW i \in Ios, Transport!TransferStep(i)
    PROVE  Transport!TypeOK'
<1> USE DEF Transport!TypeOK, Transport!requests, Transport!quarantine, Transport!Busy
<1>1. CASE Transport!OperationCompletes(i) \/ Transport!OperationPends(i)
    BY <1>1 DEF Transport!OperationCompletes, Transport!OperationPends
<1>2. CASE Transport!Leave(i)
    BY <1>2, ClosedTyped, FreedTyped DEF Transport!Leave
<1>3. CASE Transport!WaitSignaled(i) \/ Transport!WaitGivesUp(i)
    BY <1>3 DEF Transport!WaitSignaled, Transport!WaitGivesUp
<1>4. CASE Transport!Quarantine(i)
    BY <1>4 DEF Transport!Quarantine, Transport!ReaperValues
<1> QED
    BY <1>1, <1>2, <1>3, <1>4 DEF Transport!TransferStep, Transport!OperationFails,
                                  Transport!Result, Transport!Drained

(* and those of the driver and the reaper. *)
LEMMA ReaperTyped ==
    ASSUME Transport!TypeOK, NEW i \in Ios,
           \/ Transport!DriverCompletes(i)
           \/ Transport!ReaperStep(i) \/ Transport!ReaperWaitFails(i)
    PROVE  Transport!TypeOK'
<1> USE DEF Transport!TypeOK, Transport!transport, Transport!requests,
            Transport!quarantine, Transport!ReaperValues
<1>1. CASE Transport!DriverCompletes(i)
    BY <1>1 DEF Transport!DriverCompletes
<1>2. CASE Transport!ReaperWakes(i) \/ Transport!ReaperWaitFails(i)
    BY <1>2 DEF Transport!ReaperWakes, Transport!ReaperWaitFails
<1>3. CASE Transport!ReaperClosesEvent(i) \/ Transport!ReaperClosesHandle(i)
    BY <1>3, ClosedTyped DEF Transport!ReaperClosesEvent, Transport!ReaperClosesHandle
<1>4. CASE Transport!ReaperForgets(i)
    BY <1>4, FreedTyped DEF Transport!ReaperForgets
<1> QED
    BY <1>1, <1>2, <1>3, <1>4 DEF Transport!ReaperStep

(* Every step leaves every kind in place. *)
LEMMA IoTypeStep == Transport!TypeOK /\ [Transport!Next]_(Transport!vars) => Transport!TypeOK'
<1>1. Transport!TypeOK /\ UNCHANGED Transport!vars => Transport!TypeOK'
    BY DEF Transport!TypeOK, Transport!vars, Transport!transport, Transport!requests,
           Transport!quarantine
<1> QED
    BY <1>1, SessionTyped, TransferTyped, ReaperTyped DEF Transport!Next

-----------------------------------------------------------------------------
(* The life of a transfer: whoever is in _overlapped_transfer_locked has a   *)
(* frame on the transport's LCD handle; what is retained has an event and a *)
(* handle of its own; the reaper goes on with a finished request only; and  *)
(* nothing is freed whose request is still out.                             *)
PhaseInv ==
    /\ io # NoIo <=> ioPc \in Transport!Busy
    /\ ioPc = "issued" => irp[io] = "none"
    /\ ioPc = "result" => irp[io] = "done"
    /\ ioPc \in {"waiting", "draining"} => irp[io] # "none"
    /\ \A i \in Ios :
          /\ io = i => storage[i] = "frame" /\ target[i] = lcd /\ lcd # NoHandle
          /\ storage[i] = "none" =>
                irp[i] = "none" /\ event[i] = NoHandle /\ reaper[i] = "none"
          /\ storage[i] = "frame" => io = i /\ event[i] # NoHandle /\ reaper[i] = "none"
          /\ storage[i] = "retained" =>
                event[i] # NoHandle /\ target[i] # NoHandle /\ reaper[i] # "none"
          /\ storage[i] = "freed" =>
                irp[i] # "pending" /\ event[i] = NoHandle /\ reaper[i] \in {"none", "ended"}
          /\ storage[i] = "retained" <=> i \in retained
          /\ reaper[i] \in {"woken", "eventclosed", "handleclosed"} => irp[i] = "done"

(* It starts with every transfer unused. *)
LEMMA PhaseInit == Transport!HandlesAssumption /\ Transport!Init => PhaseInv
BY DEF Transport!HandlesAssumption, Transport!Init, PhaseInv, Transport!Busy

(* Every step leaves each transfer in a phase that it knows. *)
LEMMA PhaseStep ==
    /\ Transport!HandlesAssumption /\ Transport!TypeOK /\ PhaseInv
    /\ [Transport!Next]_(Transport!vars)
    => PhaseInv'
<1> SUFFICES ASSUME Transport!HandlesAssumption, Transport!TypeOK, PhaseInv,
                    [Transport!Next]_(Transport!vars)
             PROVE  PhaseInv'
    OBVIOUS
<1> USE DEF Transport!HandlesAssumption, Transport!TypeOK, PhaseInv, Transport!Busy,
            Transport!Free
<1>1. ASSUME NEW h \in Handles, Transport!OpenFeature(h) \/ Transport!OpenLcd(h)
      PROVE  PhaseInv'
    BY <1>1 DEF Transport!OpenFeature, Transport!OpenLcd, Transport!requests,
                Transport!quarantine
<1>2. CASE Transport!Close
    BY <1>2 DEF Transport!Close, Transport!requests, Transport!quarantine
<1>3. ASSUME NEW i \in Ios, NEW e \in Handles, Transport!Begin(i, e)
      PROVE  PhaseInv'
    BY <1>3 DEF Transport!Begin, Transport!quarantine
<1>4. ASSUME NEW i \in Ios, Transport!OperationCompletes(i) \/ Transport!OperationPends(i)
      PROVE  PhaseInv'
    BY <1>4 DEF Transport!OperationCompletes, Transport!OperationPends, Transport!quarantine
<1>5. ASSUME NEW i \in Ios, Transport!Leave(i),
             ioPc \in {"issued", "result"} \/ irp[i] = "done"
      PROVE  PhaseInv'
    BY <1>5 DEF Transport!Leave, Transport!Freed, Transport!quarantine
<1>6. ASSUME NEW i \in Ios, Transport!WaitSignaled(i) \/ Transport!WaitGivesUp(i)
      PROVE  PhaseInv'
    BY <1>6 DEF Transport!WaitSignaled, Transport!WaitGivesUp, Transport!requests,
                Transport!quarantine
<1>7. ASSUME NEW i \in Ios, Transport!Quarantine(i)
      PROVE  PhaseInv'
    BY <1>7 DEF Transport!Quarantine
<1>8. ASSUME NEW i \in Ios, Transport!DriverCompletes(i)
      PROVE  PhaseInv'
    BY <1>8 DEF Transport!DriverCompletes, Transport!transport, Transport!quarantine
<1>9. ASSUME NEW i \in Ios, Transport!ReaperWakes(i) \/ Transport!ReaperWaitFails(i)
      PROVE  PhaseInv'
    BY <1>9 DEF Transport!ReaperWakes, Transport!ReaperWaitFails, Transport!transport,
                Transport!requests
<1>10. ASSUME NEW i \in Ios,
              Transport!ReaperClosesEvent(i) \/ Transport!ReaperClosesHandle(i)
       PROVE  PhaseInv'
    BY <1>10 DEF Transport!ReaperClosesEvent, Transport!ReaperClosesHandle,
                 Transport!transport, Transport!requests
<1>11. ASSUME NEW i \in Ios, Transport!ReaperForgets(i)
       PROVE  PhaseInv'
    BY <1>11 DEF Transport!ReaperForgets, Transport!Freed, Transport!transport
<1>12. CASE UNCHANGED Transport!vars
    BY <1>12 DEF Transport!vars, Transport!transport, Transport!requests,
                 Transport!quarantine
<1> QED
    BY <1>1, <1>2, <1>3, <1>4, <1>5, <1>6, <1>7, <1>8, <1>9, <1>10, <1>11, <1>12
       DEF Transport!Next, Transport!Session, Transport!TransferStep, Transport!ReaperStep,
           Transport!OperationFails, Transport!Result, Transport!Drained

-----------------------------------------------------------------------------
(* The handles.  A value says what it denotes, and of each kind there is     *)
(* one owner: two transfers never have the same event, and a retained       *)
(* handle is neither another's nor the transport's any more.                *)
HasEvent(i) == event[i] # NoHandle /\ reaper[i] \notin {"eventclosed", "handleclosed"}
HasLcd(i) == i \in retained /\ reaper[i] # "handleclosed"

OpenInv ==
    /\ feature # NoHandle => table[feature] = "feature"
    /\ lcd # NoHandle => table[lcd] = "lcd"
    /\ \A i \in Ios : HasEvent(i) => table[event[i]] = "event"
    /\ \A i \in Ios : HasLcd(i) => table[target[i]] = "lcd"

ApartInv ==
    /\ \A i, j \in Ios : HasEvent(i) /\ HasEvent(j) /\ event[i] = event[j] => i = j
    /\ \A i, j \in Ios : HasLcd(i) /\ HasLcd(j) /\ target[i] = target[j] => i = j
    /\ \A i \in Ios : HasLcd(i) => target[i] # lcd

OwnerInv ==
    \A h \in Handles :
        /\ table[h] = "feature" => h = feature
        /\ table[h] = "lcd" => h = lcd \/ \E i \in Ios : HasLcd(i) /\ h = target[i]
        /\ table[h] = "event" => \E i \in Ios : HasEvent(i) /\ h = event[i]

(* While no transport is open it has no handles, and until it is it has one. *)
SessionInv ==
    /\ ioPc = "closed" => feature = NoHandle
    /\ ioPc \in {"closed", "opening"} => lcd = NoHandle

HandleInv == SessionInv /\ OpenInv /\ ApartInv /\ OwnerInv

(* It starts with no handle open. *)
LEMMA HandleInit == Transport!HandlesAssumption /\ Transport!Init => HandleInv
BY DEF Transport!HandlesAssumption, Transport!Init, HandleInv, SessionInv, OpenInv,
       ApartInv, OwnerInv, HasEvent, HasLcd

(* A step that leaves the handles alone leaves the invariant alone. *)
LEMMA HandleUnchanged ==
    ASSUME HandleInv, SessionInv',
           UNCHANGED <<table, feature, lcd, event, target, retained>>,
           \A i \in Ios : /\ reaper'[i] \in {"eventclosed", "handleclosed"}
                                <=> reaper[i] \in {"eventclosed", "handleclosed"}
                          /\ reaper'[i] = "handleclosed" <=> reaper[i] = "handleclosed"
    PROVE  HandleInv'
BY DEF HandleInv, OpenInv, ApartInv, OwnerInv, HasEvent, HasLcd

(* Every step leaves each handle with one owner. *)
LEMMA HandleStep ==
    /\ Transport!HandlesAssumption /\ Transport!TypeOK /\ PhaseInv /\ HandleInv
    /\ [Transport!Next]_(Transport!vars)
    => HandleInv'
<1> SUFFICES ASSUME Transport!HandlesAssumption, Transport!TypeOK, PhaseInv, HandleInv,
                    [Transport!Next]_(Transport!vars)
             PROVE  HandleInv'
    OBVIOUS
<1>1. ASSUME NEW h \in Handles, Transport!OpenFeature(h)
      PROVE  HandleInv'
    BY <1>1 DEF Transport!OpenFeature, Transport!requests, Transport!quarantine,
                Transport!Free, Transport!TypeOK, Transport!HandlesAssumption,
                HandleInv, SessionInv, OpenInv, ApartInv, OwnerInv, HasEvent, HasLcd
<1>2. ASSUME NEW h \in Handles, Transport!OpenLcd(h)
      PROVE  HandleInv'
    BY <1>2 DEF Transport!OpenLcd, Transport!requests, Transport!quarantine,
                Transport!Free, Transport!TypeOK, Transport!HandlesAssumption,
                HandleInv, SessionInv, OpenInv, ApartInv, OwnerInv, HasEvent, HasLcd
<1>3. CASE Transport!Close
    <2>1. /\ feature' = NoHandle /\ lcd' = NoHandle /\ ioPc' = "closed"
          /\ UNCHANGED <<event, target, retained, reaper>>
          /\ \A h \in Handles :
                table'[h] = IF h \in {feature, lcd} THEN "free" ELSE table[h]
        BY <1>3 DEF Transport!Close, Transport!Closed, Transport!requests,
                    Transport!quarantine, Transport!HandlesAssumption
    <2>2. \A i \in Ios : /\ HasEvent(i)' <=> HasEvent(i)
                         /\ HasLcd(i)' <=> HasLcd(i)
        BY <2>1 DEF HasEvent, HasLcd
    <2>3. \A i \in Ios : HasLcd(i) => target[i] \in Handles
        BY DEF HasLcd, Transport!TypeOK, PhaseInv
    <2>4. \A i \in Ios : HasEvent(i) => event[i] \in Handles
        BY DEF HasEvent, Transport!TypeOK
    <2>5. SessionInv' /\ ApartInv'
        BY <2>1, <2>2, <2>3 DEF HandleInv, SessionInv, ApartInv, Transport!HandlesAssumption
    <2>6. OpenInv'
        BY <2>1, <2>2, <2>3, <2>4 DEF HandleInv, OpenInv, ApartInv, Transport!TypeOK,
                                      Transport!HandlesAssumption
    <2>7. OwnerInv'
        BY <2>1, <2>2 DEF HandleInv, OwnerInv
    <2> QED
        BY <2>5, <2>6, <2>7 DEF HandleInv
<1>4. ASSUME NEW i \in Ios, NEW e \in Handles, Transport!Begin(i, e)
      PROVE  HandleInv'
    BY <1>4 DEF Transport!Begin, Transport!quarantine, Transport!Free, Transport!TypeOK,
                PhaseInv, Transport!HandlesAssumption,
                HandleInv, SessionInv, OpenInv, ApartInv, OwnerInv, HasEvent, HasLcd
<1>5. ASSUME NEW i \in Ios,
             \/ Transport!OperationCompletes(i) \/ Transport!OperationPends(i)
             \/ Transport!WaitSignaled(i) \/ Transport!WaitGivesUp(i)
             \/ Transport!DriverCompletes(i)
      PROVE  HandleInv'
    BY <1>5, HandleUnchanged
       DEF Transport!OperationCompletes, Transport!OperationPends, Transport!WaitSignaled,
           Transport!WaitGivesUp, Transport!DriverCompletes,
           Transport!transport, Transport!requests, Transport!quarantine, HandleInv,
           SessionInv
<1>6. ASSUME NEW i \in Ios, Transport!Leave(i), ioPc \in Transport!Busy
      PROVE  HandleInv'
    BY <1>6 DEF Transport!Leave, Transport!Closed, Transport!Freed, Transport!quarantine,
                Transport!Busy, Transport!TypeOK, PhaseInv, Transport!HandlesAssumption,
                HandleInv, SessionInv, OpenInv, ApartInv, OwnerInv, HasEvent, HasLcd
<1>7. ASSUME NEW i \in Ios, Transport!Quarantine(i)
      PROVE  HandleInv'
    BY <1>7 DEF Transport!Quarantine, Transport!TypeOK, PhaseInv,
                Transport!HandlesAssumption,
                HandleInv, SessionInv, OpenInv, ApartInv, OwnerInv, HasEvent, HasLcd
<1>8. ASSUME NEW i \in Ios, Transport!ReaperWakes(i) \/ Transport!ReaperWaitFails(i)
      PROVE  HandleInv'
    BY <1>8, HandleUnchanged
       DEF Transport!ReaperWakes, Transport!ReaperWaitFails, Transport!transport,
           Transport!requests, Transport!TypeOK, HandleInv, SessionInv
<1>9. ASSUME NEW i \in Ios, Transport!ReaperClosesEvent(i)
      PROVE  HandleInv'
    BY <1>9 DEF Transport!ReaperClosesEvent, Transport!Closed, Transport!transport,
                Transport!requests, Transport!TypeOK, PhaseInv,
                 Transport!HandlesAssumption, HandleInv, SessionInv, OpenInv, ApartInv,
                OwnerInv, HasEvent, HasLcd
<1>10. ASSUME NEW i \in Ios, Transport!ReaperClosesHandle(i)
      PROVE  HandleInv'
    BY <1>10 DEF Transport!ReaperClosesHandle, Transport!Closed, Transport!transport,
                 Transport!requests, Transport!TypeOK, PhaseInv,
                 Transport!HandlesAssumption, HandleInv, SessionInv, OpenInv, ApartInv,
                OwnerInv, HasEvent, HasLcd
<1>11. ASSUME NEW i \in Ios, Transport!ReaperForgets(i)
      PROVE  HandleInv'
    BY <1>11 DEF Transport!ReaperForgets, Transport!Freed, Transport!transport,
                 Transport!TypeOK, PhaseInv,
                 Transport!HandlesAssumption, HandleInv, SessionInv, OpenInv, ApartInv,
                OwnerInv, HasEvent, HasLcd
<1>12. CASE UNCHANGED Transport!vars
    BY <1>12, HandleUnchanged DEF Transport!vars, Transport!transport, Transport!requests,
                                  Transport!quarantine, HandleInv, SessionInv
<1> QED
    BY <1>1, <1>2, <1>3, <1>4, <1>5, <1>6, <1>7, <1>8, <1>9, <1>10, <1>11, <1>12
       DEF Transport!Next, Transport!Session, Transport!TransferStep, Transport!ReaperStep,
           Transport!OperationFails, Transport!Result, Transport!Drained,
           PhaseInv, Transport!Busy

-----------------------------------------------------------------------------
(* Owned and Live of Win32Io, in terms of the owners above. *)
LEMMA LiveOwners ==
    ASSUME Transport!TypeOK, PhaseInv, NEW r \in Transport!Live
    PROVE  \/ r = <<"feature", NoIo, feature>> /\ feature # NoHandle
           \/ r = <<"lcd", NoIo, lcd>> /\ lcd # NoHandle
           \/ \E i \in Ios : HasEvent(i) /\ r = <<"event", i, event[i]>>
           \/ \E i \in Ios : HasLcd(i) /\ r = <<"retained", i, target[i]>>
BY DEF Transport!Live, Transport!Owned, HasEvent, HasLcd, Transport!TypeOK, PhaseInv

(* Who holds a handle is among the owners. *)
LEMMA OwnersLive ==
    ASSUME Transport!HandlesAssumption, Transport!TypeOK, PhaseInv
    PROVE  /\ feature # NoHandle => <<"feature", NoIo, feature>> \in Transport!Live
           /\ lcd # NoHandle => <<"lcd", NoIo, lcd>> \in Transport!Live
           /\ \A i \in Ios : HasEvent(i) => <<"event", i, event[i]>> \in Transport!Live
           /\ \A i \in Ios : HasLcd(i) => <<"retained", i, target[i]>> \in Transport!Live
BY DEF Transport!Live, Transport!Owned, HasEvent, HasLcd, Transport!TypeOK, PhaseInv,
       Transport!HandlesAssumption

(* Every handle that somebody has is open, for what it is used for. *)
LEMMA LiveOpen ==
    ASSUME Transport!TypeOK, PhaseInv, HandleInv, NEW r \in Transport!Live
    PROVE  table[r[3]] = CASE r[1] = "feature" -> "feature"
                           [] r[1] = "event" -> "event"
                           [] OTHER -> "lcd"
BY LiveOwners DEF HandleInv, OpenInv

(* One owner for each value keeps the transfers apart. *)
LEMMA Exclusive ==
    ASSUME Transport!TypeOK, PhaseInv, HandleInv
    PROVE  Transport!HandlesExclusive
<1>1. \A r \in Transport!Live : table[r[3]] # "free"
    BY LiveOpen
<1>2. ASSUME NEW r \in Transport!Live, NEW s \in Transport!Live, r[3] = s[3]
      PROVE  r = s
    BY <1>2, LiveOpen, LiveOwners DEF HandleInv, ApartInv
<1> QED
    BY <1>1, <1>2 DEF Transport!HandlesExclusive

(* A handle without an owner is closed. *)
LEMMA NoLeak ==
    ASSUME Transport!HandlesAssumption, Transport!TypeOK, PhaseInv, HandleInv
    PROVE  Transport!NothingLeaks
<1> SUFFICES ASSUME NEW h \in Handles, table[h] # "free"
             PROVE  \E r \in Transport!Live : r[3] = h
    BY DEF Transport!NothingLeaks, Transport!Free
<1> h # NoHandle
    BY DEF Transport!HandlesAssumption
<1>1. CASE table[h] = "feature"
    BY <1>1, OwnersLive DEF HandleInv, OwnerInv
<1>2. CASE table[h] = "lcd"
    BY <1>2, OwnersLive DEF HandleInv, OwnerInv
<1>3. CASE table[h] = "event"
    BY <1>3, OwnersLive DEF HandleInv, OwnerInv
<1> QED
    BY <1>1, <1>2, <1>3 DEF Transport!TypeOK

(* The inductive invariant behind IoIsSafe: what phase each transfer is in,  *)
(* and who owns each handle value.                                          *)
Win32Inv == Transport!TypeOK /\ PhaseInv /\ HandleInv

(* A behaviour of the three is, for the transport, one of Win32Io,          *)
LEMMA TransportRuns == KeyboardSpec => Transport!Spec
<1>1. KeyboardInit => Transport!Init
    BY DEF KeyboardInit
<1>2. [KeyboardNext]_keyboardVars => [Transport!Next]_(Transport!vars)
    BY DEF KeyboardNext, keyboardVars, ioVars, Transport!vars, Transport!transport,
           Transport!requests, Transport!quarantine
<1> QED
    BY <1>1, <1>2, PTL DEF KeyboardSpec, Transport!Spec

(* and for the session one of F108Upload.                                  *)
LEMMA SessionRuns == KeyboardSpec => Spec
<1>1. KeyboardInit => Init
    BY DEF KeyboardInit
<1>2. [KeyboardNext]_keyboardVars => [Next]_vars
    BY DEF KeyboardNext, keyboardVars
<1> QED
    BY <1>1, <1>2, PTL DEF KeyboardSpec, Spec

(* The invariant holds always, whatever the driver answers, and when. *)
THEOREM Win32Invariant == KeyboardSpec => []Win32Inv
<1>1. Transport!Init => Win32Inv
    BY TransportAssumption, IoTypeInit, PhaseInit, HandleInit DEF Win32Inv
<1>2. Win32Inv /\ [Transport!Next]_(Transport!vars) => Win32Inv'
    BY TransportAssumption, IoTypeStep, PhaseStep, HandleStep DEF Win32Inv
<1> QED
    BY <1>1, <1>2, TransportRuns, PTL DEF Transport!Spec

(* The variables of the session and of the transport keep their kinds.     *)
THEOREM TypesCorrect == KeyboardSpec => []TypesOK
<1>1. TypeOK /\ Win32Inv => TypesOK
    BY DEF TypesOK, Win32Inv
<1> QED
    BY <1>1, SessionRuns, TypeCorrect, Win32Invariant, PTL

(* The memory of a transfer outlives its request, no handle is closed twice  *)
(* or used after it was closed, although Windows gives closed values away    *)
(* again, and none leaks, whatever the driver answers, and when              *)
(* (Win32Transport, _reap_retained_io).                                      *)
THEOREM IoIsSafeCorrect == KeyboardSpec => []IoIsSafe
<1>1. Win32Inv => IoIsSafe
  <2>1. Transport!TypeOK /\ PhaseInv => Transport!StorageOutlivesIrp
      BY DEF Transport!TypeOK, PhaseInv, Transport!StorageOutlivesIrp
  <2> QED
      BY <2>1, TransportAssumption, Exclusive, NoLeak DEF Win32Inv, IoIsSafe, Transport!IoIsSafe
<1> QED
    BY <1>1, Win32Invariant, PTL

-----------------------------------------------------------------------------
(* The playlist above it.  MaxFrames frames are what the keyboard holds, a  *)
(* frame is shown for at most half a second, in ticks of 20 ms.             *)

(* What the constants of the source come to. *)
LEMMA TheNumbers ==
    /\ Playing!MaxDelay = 500
    /\ \A hold \in 2 .. 20 : Playing!FramesForHold(hold) = 2 * hold
BY DEF Playing!MaxDelay, Playing!FramesForHold, Playing!CeilDiv, Playing!Most

(* Division with remainder. *)
LEMMA Divided ==
    ASSUME NEW a \in Nat, NEW b \in Nat \ {0}
    PROVE  /\ a \div b \in Nat
           /\ a % b \in 0 .. b - 1
           /\ a = b * (a \div b) + (a % b)
<1>1. a \div b \in Nat
    OBVIOUS
<1>2. a % b \in 0 .. b - 1
    OBVIOUS
<1>3. a = b * (a \div b) + (a % b)
    OBVIOUS
<1> QED
    BY <1>1, <1>2, <1>3

(* Ticks that are spread over so many frames that none needs more than the  *)
(* longest delay, and no more frames than ticks, make delays that the       *)
(* payload accepts.                                                         *)
LEMMA DelaysFit ==
    ASSUME NEW ticks \in Nat, NEW frames \in Nat \ {0}, frames <= ticks, ticks <= 25 * frames,
           NEW i \in 1 .. frames
    PROVE  /\ Playing!Distribute(ticks, frames)[i] \in 20 .. 500
           /\ Playing!Distribute(ticks, frames)[i] % 20 = 0
<1> DEFINE q == ticks \div frames
           r == ticks % frames
<1>1. q \in Nat /\ r \in 0 .. frames - 1 /\ ticks = frames * q + r
    BY Divided
<1>2. Playing!Distribute(ticks, frames)[i] = (q + IF i > frames - r THEN 1 ELSE 0) * 20
    BY DEF Playing!Distribute
<1> HIDE DEF q, r
<1>3. q >= 1
  <2>1. CASE q = 0
      BY <1>1, <2>1
  <2> QED
      BY <1>1, <2>1
<1>4. q <= 24 \/ (q = 25 /\ r = 0)
  <2>1. CASE q >= 25
    <3>1. PICK k \in Nat : q = 25 + k
        BY <1>1, <2>1
    <3>2. frames * q = 25 * frames + frames * k /\ frames * k \in Nat
        BY <3>1
    <3>3. frames * k = 0 /\ r = 0
        BY <1>1, <3>2
    <3>4. k = 0
        BY <3>3
    <3> QED
        BY <3>1, <3>3, <3>4
  <2> QED
      BY <1>1, <2>1
<1>5. PICK d \in 1 .. 25 : Playing!Distribute(ticks, frames)[i] = d * 20
    BY <1>1, <1>2, <1>3, <1>4
<1> QED
    BY <1>5

(* The frames of one account: enough for the hold time, not more than there  *)
(* are ticks, and all the accounts' together fit into the keyboard.         *)
Room(n, hold, budget) ==
    Playing!Least(Playing!Least(141, 141), Playing!Most(Playing!Most(1, budget), Playing!Required(n, hold)))
Frames(n, hold, budget) ==
    Playing!Most(Playing!FramesForHold(hold),
                 Playing!Least(Playing!Least(8, Room(n, hold, budget) \div n),
                               Playing!Most(1, (hold * 1000) \div 20)))

(* Multiplication keeps the order. *)
LEMMA Smaller ==
    ASSUME NEW a \in Nat, NEW b \in Nat, NEW c \in Nat, a <= b
    PROVE  a * c <= b * c
<1>1. PICK k \in Nat : b = a + k
    OBVIOUS
<1>2. b * c = a * c + k * c /\ k * c \in Nat
    BY <1>1
<1> QED
    BY <1>2

(* An account gets enough frames for its hold time and no more than its ticks, *)
(* and all accounts together no more than the keyboard holds.               *)
LEMMA FramesFit ==
    ASSUME NEW n \in Nat \ {0}, NEW hold \in 2 .. 20, NEW budget \in Int,
           Playing!Required(n, hold) <= 141
    PROVE  /\ Frames(n, hold, budget) \in 2 * hold .. 50 * hold
           /\ n * Frames(n, hold, budget) \in 1 .. 141
<1> DEFINE room == Room(n, hold, budget)
           f == Frames(n, hold, budget)
<1>1. Playing!FramesForHold(hold) = 2 * hold /\ Playing!Required(n, hold) = n * (2 * hold)
    BY TheNumbers DEF Playing!Required
<1>2. room \in 0 .. 141
  <2>1. n * (2 * hold) \in Nat
      OBVIOUS
  <2> QED
      BY <1>1, <2>1 DEF Room, Playing!Least, Playing!Most
<1>3. (hold * 1000) \div 20 = 50 * hold
    OBVIOUS
<1>4. room \div n \in Nat /\ n * (room \div n) <= room
  <2> HIDE DEF room
  <2>1. room \in Nat
      BY <1>2
  <2>2. room \div n \in Nat /\ room % n \in 0 .. n - 1 /\ room = n * (room \div n) + (room % n)
      BY <2>1, Divided
  <2> QED
      BY <2>2
<1> HIDE DEF room
<1>5. f \in 2 * hold .. 50 * hold /\ (f = 2 * hold \/ f <= room \div n)
    BY <1>1, <1>3, <1>4 DEF room, Frames, Playing!Most, Playing!Least
<1> HIDE DEF f
<1>6. n * f <= 141
  <2>1. CASE f = 2 * hold
      BY <1>1, <2>1
  <2>2. CASE f <= room \div n
    <3>1. f * n <= (room \div n) * n
        BY <1>4, <1>5, <2>2, Smaller
    <3> QED
        BY <1>2, <1>4, <1>5, <3>1
  <2> QED
      BY <1>5, <2>1, <2>2
<1>7. n * f >= 1
  <2>1. 1 * f <= n * f
      BY <1>5, Smaller
  <2> QED
      BY <1>5, <2>1
<1> QED
    BY <1>5, <1>6, <1>7 DEF f

(* What save_config accepts, the renderer and the keyboard accept too, for   *)
(* any number of the accounts, any hold time and any frame budget.          *)
LEMMA FeasibleIsPlayed ==
    ASSUME NEW n \in Nat \ {0}, NEW hold \in 2 .. 20, NEW budget \in Int,
           Playing!Required(n, hold) <= 141
    PROVE  LET delays == Playing!Allocate(n, hold, budget)
           IN  /\ delays # Playing!Refused
               /\ Playing!ValidFrames(n, delays)
               /\ Playing!ValidPayload(Playing!Build(n, delays))
<1> DEFINE f == Frames(n, hold, budget)
           even == Playing!Distribute(50 * hold, f)
           delays == Playing!Allocate(n, hold, budget)
<1>1. f \in 2 * hold .. 50 * hold /\ n * f \in 1 .. 141
    BY FramesFit
<1> HIDE DEF f
<1>2. ASSUME NEW i \in 1 .. f
      PROVE  even[i] \in 20 .. 500 /\ even[i] % 20 = 0
  <2>1. 50 * hold \in Nat /\ f \in Nat \ {0} /\ f <= 50 * hold /\ 50 * hold <= 25 * f
      BY <1>1
  <2> QED
      BY <2>1, DelaysFit
<1>3. DOMAIN even = 1 .. f /\ Len(even) = f
    BY <1>1 DEF Playing!Distribute
<1>4. delays = IF Playing!Required(n, hold) > 141 \/ (\E i \in DOMAIN even : even[i] > Playing!MaxDelay)
               THEN Playing!Refused ELSE even
  <2>1. (hold * 1000) \div 20 = 50 * hold
      OBVIOUS
  <2> QED
      BY <2>1 DEF Playing!Allocate, f, Frames, Room
<1> HIDE DEF even, delays
<1>5. \A i \in 1 .. f : even[i] \in 20 .. 500
    BY <1>2
<1>6. delays = even
  <2>1. Playing!MaxDelay = 500
      BY TheNumbers
  <2>2. ASSUME NEW i \in DOMAIN even
        PROVE  ~(even[i] > Playing!MaxDelay)
    <3>1. even[i] \in 20 .. 500
        BY <1>3, <1>5
    <3> QED
        BY <2>1, <3>1
  <2>3. Playing!Required(n, hold) = n * (2 * hold)
      BY TheNumbers DEF Playing!Required
  <2>4. ~(Playing!Required(n, hold) > 141)
      BY <2>3
  <2> QED
      BY <1>4, <2>2, <2>4
<1>7. delays # Playing!Refused
    BY <1>1, <1>3, <1>6 DEF Playing!Refused
<1>8. Playing!ValidFrames(n, delays)
    BY <1>1, <1>2, <1>3, <1>6, TheNumbers DEF Playing!ValidFrames
<1>9. Playing!ValidPayload(Playing!Build(n, delays))
  <2>1. \A x \in Int : Playing!DelayByte(x) # 0
      BY DEF Playing!DelayByte, Playing!Most, Playing!Least
  <2>2. DOMAIN delays = 1 .. f /\ Len(delays) = f
      BY <1>3, <1>6
  <2>3. \A i \in 1 .. f : delays[i] \in Int
      BY SMTT(40), <1>5, <1>6
  <2>4. /\ Playing!Build(n, delays).frames = n * f
        /\ Playing!Build(n, delays).pages = Playing!PageCount(n * f)
        /\ \A i \in DOMAIN Playing!Build(n, delays).bytes :
              i \in 1 .. f /\ Playing!Build(n, delays).bytes[i] = Playing!DelayByte(delays[i])
      BY <2>2 DEF Playing!Build
  <2> QED
      BY <1>1, <2>1, <2>3, <2>4 DEF Playing!ValidPayload
<1> QED
    BY <1>7, <1>8, <1>9 DEF delays

(* The settings stay within their bounds, and a file that save_config wrote  *)
(* asks for no more frames than there are.                                  *)
PlayInv ==
    /\ window \in [count : Nat, hold : 2 .. 20, budget : Int]
    /\ file \in [version : Int, count : Nat, hold : Int, budget : Int]
    /\ saved => file.hold \in 2 .. 20 /\ Playing!Required(file.count, file.hold) <= 141

(* The defaults are within the bounds. *)
LEMMA PlayStart == Playing!PlaylistInit => PlayInv
<1> SUFFICES ASSUME Playing!PlaylistInit
             PROVE  PlayInv
    OBVIOUS
<1>1. Playing!Required(0, 5) = 0
  <2>1. Playing!Required(0, 5) = 0 * (2 * 5)
      BY TheNumbers DEF Playing!Required
  <2> QED
      BY <2>1
<1>2. /\ window = [count |-> 0, hold |-> 5, budget |-> 80]
      /\ file = [version |-> 8, count |-> 0, hold |-> 5, budget |-> 80]
    BY DEF Playing!PlaylistInit, Playing!Version
<1> QED
    BY <1>1, <1>2 DEF PlayInv

(* A frame budget that was raised is a number. *)
LEMMA RaisedTyped ==
    ASSUME NEW count \in Nat, NEW hold \in 2 .. 20, NEW budget \in Int
    PROVE  Playing!Raised(count, hold, budget) \in Int
<1>1. Playing!Required(count, hold) = count * (2 * hold)
    BY TheNumbers DEF Playing!Required
<1>2. count * (2 * hold) \in Int
    OBVIOUS
<1> QED
    BY <1>1, <1>2 DEF Playing!Raised

(* Editing, saving, loading and rendering keep the settings within them. *)
LEMMA PlayStep == PlayInv /\ [Playing!PlaylistNext]_playVars => PlayInv'
<1> SUFFICES ASSUME PlayInv, [Playing!PlaylistNext]_playVars
             PROVE  PlayInv'
    OBVIOUS
<1>1. CASE Playing!Edit
  <2>1. PICK c \in {0, 1, 7, 28, 36}, h \in {2, 5, 20} :
          /\ window' = [window EXCEPT !.count = c, !.hold = h]
          /\ UNCHANGED <<file, saved>>
      BY <1>1 DEF Playing!Edit
  <2>2. window' = [count |-> c, hold |-> h, budget |-> window.budget] /\ window.budget \in Int
      BY <2>1 DEF PlayInv
  <2>3. c \in Nat /\ h \in 2 .. 20
      OBVIOUS
  <2>4. window' \in [count : Nat, hold : 2 .. 20, budget : Int]
      BY <2>2, <2>3
  <2> QED
      BY <2>1, <2>4 DEF PlayInv
<1>2. CASE Playing!Save
  <2>1. PICK budget :
          /\ budget = Playing!Raised(window.count, window.hold, window.budget)
          /\ window' = [window EXCEPT !.budget = budget]
          /\ file' = [version |-> 8, count |-> window.count, hold |-> window.hold, budget |-> budget]
      BY <1>2 DEF Playing!Save, Playing!Version
  <2>2. window.count \in Nat /\ window.hold \in 2 .. 20 /\ window.budget \in Int
      BY DEF PlayInv
  <2>3. budget \in Int
      BY <2>1, <2>2, RaisedTyped
  <2>4. Playing!Required(window.count, window.hold) <= 141
      BY <1>2 DEF Playing!Save, Playing!Feasible
  <2>5. window' \in [count : Nat, hold : 2 .. 20, budget : Int]
      BY <2>1, <2>3 DEF PlayInv
  <2>6. file' \in [version : Int, count : Nat, hold : Int, budget : Int]
      BY <2>1, <2>2, <2>3
  <2>7. file'.count = window.count /\ file'.hold = window.hold
      BY <2>1
  <2> QED
      BY <2>2, <2>4, <2>5, <2>6, <2>7 DEF PlayInv
<1>3. CASE Playing!Replace
  <2>1. PICK v \in {6, 7, 8}, c \in {0, 1, 7, 28, 36}, h \in {0, 7, 60}, b \in {32, 48, 200, -1000} :
          file' = [version |-> v, count |-> c, hold |-> h, budget |-> b]
      BY <1>3 DEF Playing!Replace
  <2>2. file' \in [version : Int, count : Nat, hold : Int, budget : Int]
      BY <2>1
  <2>3. saved' = FALSE /\ UNCHANGED window
      BY <1>3 DEF Playing!Replace
  <2> QED
      BY <2>2, <2>3 DEF PlayInv
<1>4. CASE Playing!Load
  <2>1. PICK hold, budget :
          /\ hold = Playing!LoadedHold(file) /\ budget = Playing!LoadedBudget(file)
          /\ window' = [count |-> file.count, hold |-> hold,
                        budget |-> Playing!Raised(file.count, hold, budget)]
          /\ UNCHANGED <<file, saved>>
      BY <1>4 DEF Playing!Load
  <2>2. file.count \in Nat /\ file.hold \in Int /\ file.budget \in Int
      BY DEF PlayInv
  <2>3. hold \in 2 .. 20
      BY <2>1, <2>2 DEF Playing!LoadedHold, Playing!Most, Playing!Least
  <2>4. budget \in Int
      BY <2>1, <2>2 DEF Playing!LoadedBudget, Playing!ClampBudget, Playing!Most, Playing!Least
  <2>5. Playing!Raised(file.count, hold, budget) \in Int
      BY <2>2, <2>3, <2>4, RaisedTyped
  <2>6. window' \in [count : Nat, hold : 2 .. 20, budget : Int]
      BY <2>1, <2>2, <2>3, <2>5
  <2> QED
      BY <2>1, <2>6 DEF PlayInv
<1>5. CASE Playing!Render
    BY <1>5 DEF Playing!Render, PlayInv
<1>6. CASE UNCHANGED playVars
    BY <1>6 DEF playVars, PlayInv
<1> QED
    BY <1>1, <1>2, <1>3, <1>4, <1>5, <1>6 DEF Playing!PlaylistNext

(* Settings in the window and those in a saved file stay within their bounds, *)
(* whatever file of an older version is loaded (config.py).                  *)
THEOREM PlayInvariant == KeyboardSpec => []PlayInv
<1>1. KeyboardInit => PlayInv
    BY PlayStart DEF KeyboardInit
<1>2. [KeyboardNext]_keyboardVars => [Playing!PlaylistNext]_playVars
    BY DEF KeyboardNext, keyboardVars
<1> QED
    BY <1>1, <1>2, PlayStep, PTL DEF KeyboardSpec

(* Settings that save_config accepted are refused neither when they are      *)
(* rendered nor at the keyboard, however many of the accounts have something *)
(* to show: the three checks of the same arithmetic agree (SceneBudgetError, *)
(* payload.py, protocol.py).                                                *)
THEOREM SavedSettingsPlayCorrect == KeyboardSpec => []Playing!SavedSettingsPlay
<1>1. ASSUME PlayInv
      PROVE  Playing!SavedSettingsPlay
  <2> SUFFICES ASSUME saved, NEW n \in {0, 1, 7, 28, 36} \ {0}, n <= file.count
               PROVE  LET delays == Playing!Allocate(n, file.hold, file.budget)
                      IN  /\ delays # Playing!Refused
                          /\ Playing!ValidFrames(n, delays)
                          /\ Playing!ValidPayload(Playing!Build(n, delays))
      BY DEF Playing!SavedSettingsPlay
  <2>1. /\ file.count \in Nat /\ file.hold \in 2 .. 20 /\ file.budget \in Int
        /\ Playing!Required(file.count, file.hold) <= 141
      BY <1>1 DEF PlayInv
  <2>2. Playing!Required(n, file.hold) <= 141
    <3>1. /\ Playing!Required(n, file.hold) = n * (2 * file.hold)
          /\ Playing!Required(file.count, file.hold) = file.count * (2 * file.hold)
        BY <2>1, TheNumbers DEF Playing!Required
    <3>2. n * (2 * file.hold) <= file.count * (2 * file.hold)
        BY <2>1, Smaller
    <3> QED
        BY <2>1, <3>1, <3>2
  <2> QED
      BY SMTT(40), <2>1, <2>2, FeasibleIsPlayed
<1> QED
    BY <1>1, PlayInvariant, PTL

-----------------------------------------------------------------------------
(* The sum of the playlist's bytes is one of FiniteSums. *)
LEMMA DurationIs ==
    ASSUME NEW built
    PROVE  Playing!Duration(built) = built.slots * SumFunctionOnSet(built.bytes, DOMAIN built.bytes) * 2
BY Zenon DEF Playing!Duration, Playing!FoldFunction, Playing!FoldFunctionOnSet, Playing!MapThenFoldSet,
             SumFunctionOnSet, FoldFunctionOnSet, MapThenFoldSet

-----------------------------------------------------------------------------
(* The bytes that play a hold time. *)

(* So many frames of q units, of which the last r are a unit longer, are     *)
(* q * n + r units.                                                          *)
LEMMA EvenSum ==
    ASSUME NEW n \in Nat, NEW r \in 0 .. n, NEW q \in Nat,
           NEW g, \A k \in 1 .. n : g[k] = 10 * (q + IF k > n - r THEN 1 ELSE 0)
    PROVE  SumFunctionOnSet(g, 1 .. n) = 10 * (q * n + r)
<1> DEFINE S == 1 .. n
           extra == n - r + 1 .. n
           h == [s \in SUBSET S |-> 10 * (q * Cardinality(s) + Cardinality(s \intersect extra))]
<1>1. /\ IsFiniteSet(S) /\ Cardinality(S) = n
      /\ IsFiniteSet(extra) /\ Cardinality(extra) = r /\ extra \subseteq S
  <2>1. IsFiniteSet(S) /\ Cardinality(S) = n
      BY FS_Interval
  <2>2. IsFiniteSet(extra) /\ Cardinality(extra) = IF n - r + 1 > n THEN 0 ELSE n - (n - r + 1) + 1
      BY FS_Interval
  <2> QED
      BY <2>1, <2>2
<1>2. ASSUME NEW s \in SUBSET S, NEW x \in s
      PROVE  /\ Cardinality(s) \in Nat /\ Cardinality(s \ {x}) = Cardinality(s) - 1
             /\ Cardinality(s \intersect extra) \in Nat
             /\ Cardinality((s \ {x}) \intersect extra) =
                  Cardinality(s \intersect extra) - IF x \in extra THEN 1 ELSE 0
  <2>1. IsFiniteSet(s) /\ IsFiniteSet(s \intersect extra)
      BY <1>1, FS_Subset
  <2>2. Cardinality(s) \in Nat /\ Cardinality(s \intersect extra) \in Nat
      BY <2>1, FS_CardinalityType
  <2>3. Cardinality(s \ {x}) = Cardinality(s) - 1
      BY <2>1, FS_RemoveElement
  <2>4. CASE x \in extra
    <3>1. (s \ {x}) \intersect extra = (s \intersect extra) \ {x} /\ x \in s \intersect extra
        BY <2>4
    <3> QED
        BY ZenonT(60), <2>1, <2>2, <2>3, <2>4, <3>1, FS_RemoveElement
  <2>5. CASE x \notin extra
    <3>1. (s \ {x}) \intersect extra = s \intersect extra
        BY <2>5
    <3> QED
        BY <2>2, <2>3, <2>5, <3>1
  <2> QED
      BY <2>4, <2>5
<1>3. ASSUME NEW s \in SUBSET S, s # {}
      PROVE  h[s] = g[Any(s)] + h[s \ {Any(s)}]
  <2> DEFINE x == Any(s)
  <2>1. x \in s
      BY <1>3 DEF Any
  <2> HIDE DEF x
  <2>2. x \in 1 .. n /\ (x > n - r <=> x \in extra)
      BY <2>1
  <2>3. g[x] = 10 * (q + IF x \in extra THEN 1 ELSE 0)
      BY <2>2
  <2>4. PICK c \in Nat, l \in Nat, d \in {0, 1} :
          /\ c = Cardinality(s) /\ l = Cardinality(s \intersect extra)
          /\ d = IF x \in extra THEN 1 ELSE 0
          /\ Cardinality(s \ {x}) = c - 1
          /\ Cardinality((s \ {x}) \intersect extra) = l - d
      BY <1>2, <2>1
  <2>5. h[s] = 10 * (q * c + l) /\ h[s \ {x}] = 10 * (q * (c - 1) + (l - d))
      BY <2>4
  <2>6. q * (c - 1) = q * c - q
      OBVIOUS
  <2> QED
      BY <2>3, <2>4, <2>5, <2>6 DEF x
<1>4. h[{}] = 0
  <2>1. Cardinality({}) = 0 /\ {} \intersect extra = {}
      BY FS_EmptySet
  <2> QED
      BY <2>1
<1>5. IsFold(h, g, S)
  <2> DEFINE k == [s \in SUBSET S |-> IF s = {} THEN 0 ELSE g[Any(s)] + h[s \ {Any(s)}]]
  <2>1. \A s \in SUBSET S : h[s] = k[s]
      BY <1>3, <1>4
  <2>2. DOMAIN h = DOMAIN k
      OBVIOUS
  <2>3. h = k
      BY <2>1, <2>2, Zenon
  <2> QED
      BY <2>3 DEF IsFold
<1>6. h[S] = 10 * (q * n + r)
  <2>1. S \intersect extra = extra
      BY <1>1
  <2> QED
      BY <1>1, <2>1
<1> QED
    BY <1>1, <1>5, <1>6, FoldIs

(* Every byte is ten times what its frame lasts, in ticks of two             *)
(* milliseconds, and together they last the hold time.                       *)
LEMMA HoldIsExact ==
    ASSUME NEW n \in Nat \ {0}, NEW hold \in 2 .. 20, NEW budget \in Int,
           Playing!Allocate(n, hold, budget) # Playing!Refused
    PROVE  LET built == Playing!Build(n, Playing!Allocate(n, hold, budget))
           IN  /\ built.frames <= 141
               /\ Playing!Duration(built) = n * hold * 1000
<1> DEFINE f == Frames(n, hold, budget)
           ticks == 50 * hold
           even == Playing!Distribute(ticks, f)
           delays == Playing!Allocate(n, hold, budget)
           q == ticks \div f
           r == ticks % f
<1>1. Playing!Required(n, hold) <= 141
  <2>1. Playing!Required(n, hold) = n * (2 * hold) /\ n * (2 * hold) \in Int
      BY TheNumbers DEF Playing!Required
  <2> QED
      BY <2>1 DEF Playing!Allocate, Playing!Refused
<1>2. f \in 2 * hold .. 50 * hold /\ n * f \in 1 .. 141
    BY <1>1, FramesFit
<1>3. delays = even
  <2>1. (hold * 1000) \div 20 = 50 * hold
      OBVIOUS
  <2> QED
      BY <2>1 DEF Playing!Allocate, f, Frames, Room, Playing!Refused
<1> HIDE DEF f, delays
<1>4. f \in Nat \ {0} /\ ticks \in Nat /\ f <= ticks /\ ticks <= 25 * f
    BY <1>2
<1>5. q \in Nat /\ r \in 0 .. f - 1 /\ ticks = f * q + r
  <2> HIDE DEF ticks
  <2> QED
      BY <1>4, Divided
<1>6. ASSUME NEW i \in 1 .. f
      PROVE  Playing!DelayByte(even[i]) = 10 * (q + IF i > f - r THEN 1 ELSE 0)
  <2>1. even[i] = (q + IF i > f - r THEN 1 ELSE 0) * 20
      BY DEF Playing!Distribute
  <2>2. even[i] \in 20 .. 500
      BY <1>4, DelaysFit
  <2> HIDE DEF even, q, r
  <2>3. PICK d \in Int : d = q + IF i > f - r THEN 1 ELSE 0
      BY <1>5
  <2>4. even[i] = d * 20 /\ d \in 1 .. 25
      BY <2>1, <2>2, <2>3
  <2>5. (d * 20) \div 2 = d * 10
      BY <2>4
  <2>6. Playing!DelayByte(d * 20) = d * 10
      BY <2>4, <2>5 DEF Playing!DelayByte, Playing!Most, Playing!Least
  <2> QED
      BY <2>3, <2>4, <2>6
<1>7. DOMAIN even = 1 .. f /\ Len(even) = f
    BY <1>4 DEF Playing!Distribute
<1>8. PICK built :
      /\ built = Playing!Build(n, delays)
      /\ built.frames = n * f /\ built.slots = n
      /\ built.bytes = [i \in 1 .. f |-> Playing!DelayByte(even[i])]
  <2>1. PICK built : built = Playing!Build(n, even)
      OBVIOUS
  <2>2. built = [frames |-> n * f, slots |-> n,
                 bytes |-> [i \in 1 .. f |-> Playing!DelayByte(even[i])],
                 pages |-> Playing!PageCount(n * f)]
      BY <1>7, <2>1 DEF Playing!Build
  <2>3. built.frames = n * f /\ built.slots = n
      BY <2>2
  <2>4. built.bytes = [i \in 1 .. f |-> Playing!DelayByte(even[i])]
      BY <2>2
  <2> HIDE DEF even
  <2>5. built = Playing!Build(n, delays)
      BY <1>3, <2>1
  <2> QED
      BY <2>3, <2>4, <2>5
<1> HIDE DEF even, q, r
<1>9. SumFunctionOnSet(built.bytes, DOMAIN built.bytes) = 10 * (q * f + r)
  <2>1. PICK g : g = built.bytes
      OBVIOUS
  <2>2. DOMAIN g = 1 .. f /\ \A i \in 1 .. f : g[i] = 10 * (q + IF i > f - r THEN 1 ELSE 0)
      BY <1>6, <1>8, <2>1
  <2>3. SumFunctionOnSet(g, 1 .. f) = 10 * (q * f + r)
      BY SMTT(40), <1>4, <1>5, <2>2, EvenSum
  <2> QED
      BY <2>1, <2>2, <2>3
<1>10. 10 * (q * f + r) = 500 * hold
    BY <1>4, <1>5
<1>11. Playing!Duration(built) = n * (500 * hold) * 2
  <2>1. Playing!Duration(built) = built.slots * SumFunctionOnSet(built.bytes, DOMAIN built.bytes) * 2
      BY DurationIs
  <2> QED
      BY <1>8, <1>9, <1>10, <2>1
<1>12. n * (500 * hold) * 2 = n * hold * 1000
    OBVIOUS
<1>13. built.frames <= 141
    BY <1>2, <1>8
<1> QED
    BY <1>8, <1>11, <1>12, <1>13 DEF delays

(* What the keyboard is given stays inside its memory, and plays every       *)
(* account for exactly the hold time (allocate, delay_byte).                 *)
THEOREM HoldIsPlayedCorrect == KeyboardSpec => []Playing!HoldIsPlayed
<1>1. KeyboardInit => Playing!HoldIsPlayed
    BY DEF KeyboardInit, Playing!PlaylistInit, Playing!HoldIsPlayed, Playing!NoPayload
<1>2. ASSUME PlayInv, Playing!HoldIsPlayed, [Playing!PlaylistNext]_playVars
      PROVE  Playing!HoldIsPlayed'
  <2>1. CASE Playing!Render
    <3>1. PICK n \in {0, 1, 7, 28, 36} \ {0} :
            LET delays == Playing!Allocate(n, window.hold, window.budget)
                built == Playing!Build(n, delays)
            IN  /\ delays # Playing!Refused
                /\ payload' = [frames |-> built.frames, pages |-> built.pages,
                               shown |-> n, hold |-> window.hold,
                               duration |-> Playing!Duration(built)]
        BY <2>1 DEF Playing!Render
    <3>2. PICK built :
          /\ built = Playing!Build(n, Playing!Allocate(n, window.hold, window.budget))
          /\ payload'.frames = built.frames /\ payload'.shown = n
          /\ payload'.hold = window.hold /\ payload'.duration = Playing!Duration(built)
        BY <3>1
    <3>3. window.hold \in 2 .. 20 /\ window.budget \in Int
        BY <1>2 DEF PlayInv
    <3>4. built.frames <= 141 /\ Playing!Duration(built) = n * window.hold * 1000
        BY SMTT(40), <3>1, <3>2, <3>3, HoldIsExact
    <3> QED
        BY <3>2, <3>4 DEF Playing!HoldIsPlayed
  <2>2. CASE payload' = Playing!NoPayload
      BY <2>2 DEF Playing!NoPayload, Playing!HoldIsPlayed
  <2>3. CASE UNCHANGED playVars
      BY <1>2, <2>3 DEF playVars, Playing!HoldIsPlayed
  <2> QED
      BY <1>2, <2>1, <2>2, <2>3
      DEF Playing!PlaylistNext, Playing!Edit, Playing!Save, Playing!Replace, Playing!Load
<1>3. [KeyboardNext]_keyboardVars => [Playing!PlaylistNext]_playVars
    BY DEF KeyboardNext, keyboardVars
<1> QED
    BY <1>1, <1>2, <1>3, PlayInvariant, PTL DEF KeyboardSpec

(* Saved settings play, for exactly their time. *)
THEOREM SettingsPlayCorrect == KeyboardSpec => []SettingsPlay
<1>1. Playing!SavedSettingsPlay /\ Playing!HoldIsPlayed => SettingsPlay
    BY DEF SettingsPlay
<1> QED
    BY <1>1, SavedSettingsPlayCorrect, HoldIsPlayedCorrect, PTL

=============================================================================
