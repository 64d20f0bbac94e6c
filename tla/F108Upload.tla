----------------------------- MODULE F108Upload -----------------------------
(***************************************************************************)
(* A session with the keyboard: devices/aula_f108/protocol.py over a       *)
(* transport, and the keyboard's side as protocol.py relies on it.         *)
(*                                                                         *)
(* A session is an upload (begin, header, pages, apply) or a clock         *)
(* setting (begin, clock-init, clock-data, apply).  Sessions follow each   *)
(* other: whoever opens one holds the lock of FlashWear.  Commands are     *)
(* feature reports with a readback; a page is an output report that the    *)
(* keyboard answers with an input report.  Every one of these can fail     *)
(* before the keyboard has it, after it, or by its answer, and then the    *)
(* session is over at once and the keyboard is left as it is.              *)
(***************************************************************************)
EXTENDS Naturals, Sequences

CONSTANTS Contents,     \* validated payloads
          NoContent,    \* none of them: a clock session
          Pages,        \* the page count of each
          MaxWrites     \* bound: flash writes of a behaviour

ASSUME PagesAssumption ==
    /\ NoContent \notin Contents
    /\ Pages \in [Contents -> Nat \ {0}]
    /\ MaxWrites \in Nat

(* The host *)
VARIABLES pc,           \* the command that is next, or the end of the session
          waiting,      \* it is out, and its answer is not in yet
          content,      \* the payload of the session
          sent          \* its pages that were written and acknowledged

(* The keyboard (external) *)
VARIABLES mode,         \* what the last commands prepared it for
          total,        \* the page count of the last header
          taken,        \* the pages taken since the last begin
          inbox,        \* the page on its way to the keyboard, if any
          answer,       \* what the readback of the last command will say
          ack,          \* the input report waiting in the open handle
          flash,        \* the pages that were written to flash last
          writes        \* flash writes so far

host     == <<pc, waiting, content, sent>>
keyboard == <<mode, total, taken, inbox, answer, ack, flash, writes>>
vars     == <<host, keyboard>>

NoPage == <<>>
Commands == {"begin", "header", "apply", "clock-init", "clock-data"}

Whole(c) == [i \in 1 .. Pages[c] |-> <<c, i>>]

-----------------------------------------------------------------------------
Init ==
    /\ pc = "closed"
    /\ waiting = FALSE
    /\ content = NoContent
    /\ sent = 0
    /\ mode = "idle"
    /\ total = 0
    /\ taken = <<>>
    /\ inbox = NoPage
    /\ answer = "none"
    /\ ack = "none"
    /\ flash = <<>>
    /\ writes = 0

-----------------------------------------------------------------------------
(* The host                                                                *)

(* F108Device(): fresh handles, so no input report is left from before.     *)
(* Between sessions the keyboard gets over a page that was still on its    *)
(* way: assumed, see inbox.                                                *)
Open(c) ==
    /\ pc = "closed"
    /\ inbox = NoPage
    /\ c # NoContent => writes < MaxWrites
    /\ pc' = "begin"
    /\ content' = c
    /\ sent' = 0
    /\ answer' = "none"
    /\ ack' = "none"
    /\ UNCHANGED <<waiting, mode, total, taken, inbox, flash, writes>>

(* the command that follows cmd *)
After(cmd) ==
    CASE cmd = "begin"      -> IF content = NoContent THEN "clock-init" ELSE "header"
      [] cmd = "header"     -> "page"
      [] cmd = "clock-init" -> "clock-data"
      [] cmd = "clock-data" -> "apply"
      [] cmd = "apply"      -> "done"

(* The session ends: a raise anywhere, or the end of it.  The handles are   *)
(* closed on every way out.                                                *)
EndSession ==
    /\ pc' = "closed"
    /\ waiting' = FALSE
    /\ answer' = "none"
    /\ ack' = "none"
    /\ UNCHANGED <<content, sent, mode, total, taken, inbox, flash, writes>>

(* Faulty variants of the steps below. *)
ReadBackIgnored ==
    /\ pc \in Commands /\ waiting
    /\ answer \in {"ack", "nack"}
    /\ pc' = After(pc)
    /\ waiting' = FALSE
    /\ answer' = "none"
    /\ UNCHANGED <<content, sent, mode, total, taken, inbox, ack, flash, writes>>

WritePageBefore ==
    /\ pc = "page" /\ ~waiting
    /\ inbox' = <<content, sent>>
    /\ waiting' = TRUE
    /\ UNCHANGED <<pc, content, sent, mode, total, taken, answer, ack, flash, writes>>

ReadAckAnything ==
    /\ pc = "page" /\ waiting
    /\ ack # "none"
    /\ sent' = sent + 1
    /\ pc' = IF sent' = Pages[content] THEN "apply" ELSE "page"
    /\ waiting' = FALSE
    /\ ack' = "none"
    /\ UNCHANGED <<content, mode, total, taken, inbox, answer, flash, writes>>

SessionFailsRetries ==
    /\ pc \notin {"closed", "done"}
    /\ \/ ~waiting /\ EndSession
       \/ waiting /\ waiting' = FALSE /\ UNCHANGED <<pc, content, sent, keyboard>>

(* get_feature: only the status byte counts, and the slot in the answer to  *)
(* the header; anything else than an ACK raises                            *)
ReadBack ==
    /\ pc \in Commands /\ waiting
    /\ answer = "ack"
    /\ pc' = After(pc)
    /\ waiting' = FALSE
    /\ answer' = "none"
    /\ UNCHANGED <<content, sent, mode, total, taken, inbox, ack, flash, writes>>

ReadBackRefused == pc \in Commands /\ waiting /\ answer = "nack" /\ EndSession

(* write_lcd_page *)
WritePage ==
    /\ pc = "page" /\ ~waiting
    /\ inbox' = <<content, sent + 1>>
    /\ waiting' = TRUE
    /\ UNCHANGED <<pc, content, sent, mode, total, taken, answer, ack, flash, writes>>

(* read_lcd_ack: 01 5A, whichever page it is for *)
ReadAck ==
    /\ pc = "page" /\ waiting
    /\ ack = "good"
    /\ sent' = sent + 1
    /\ pc' = IF sent' = Pages[content] THEN "apply" ELSE "page"
    /\ waiting' = FALSE
    /\ ack' = "none"
    /\ UNCHANGED <<content, mode, total, taken, inbox, answer, flash, writes>>

ReadAckRefused == pc = "page" /\ waiting /\ ack = "bad" /\ EndSession

(* A transport error before or after the keyboard has the report, a short   *)
(* read, the deadline of an ACK, or the end of the process.                *)
SessionFails == pc \notin {"closed", "done"} /\ EndSession

(* the settle time is over and the transport is closed *)
SessionDone == pc = "done" /\ EndSession

-----------------------------------------------------------------------------
(* The keyboard                                                            *)

(* The host's command is out; the keyboard refuses it, or performs it. *)
Sent(cmd, status) ==
    /\ pc = cmd /\ ~waiting
    /\ waiting' = TRUE
    /\ answer' = status
    /\ UNCHANGED <<pc, content, sent, inbox, ack>>

Refuse(cmd) == Sent(cmd, "nack") /\ UNCHANGED <<mode, total, taken, flash, writes>>

(* begin forgets what an earlier session left behind *)
PerformBegin ==
    /\ Sent("begin", "ack")
    /\ mode' = "begun"
    /\ total' = 0
    /\ taken' = <<>>
    /\ UNCHANGED <<flash, writes>>

PerformHeader ==
    /\ Sent("header", "ack")
    /\ mode' = "lcd"
    /\ total' = Pages[content]
    /\ UNCHANGED <<taken, flash, writes>>

PerformClock(cmd) ==
    /\ Sent(cmd, "ack")
    /\ mode' = "clock"
    /\ UNCHANGED <<total, taken, flash, writes>>

(* apply writes the pages it has to flash, without a look at their number *)
PerformApply ==
    /\ Sent("apply", "ack")
    /\ mode' = "idle"
    /\ IF mode = "lcd"
       THEN flash' = taken /\ writes' = writes + 1
       ELSE UNCHANGED <<flash, writes>>
    /\ UNCHANGED <<total, taken>>

(* The answer to a page reaches the handle that is open, if any. *)
Answered(status) == ack' = IF pc = "closed" THEN "none" ELSE status

TakePage ==
    /\ inbox # NoPage
    /\ mode = "lcd"
    /\ Len(taken) < total
    /\ taken' = Append(taken, inbox)
    /\ inbox' = NoPage
    /\ Answered("good")
    /\ UNCHANGED <<host, mode, total, answer, flash, writes>>

RefusePage ==
    /\ inbox # NoPage
    /\ inbox' = NoPage
    /\ Answered("bad")
    /\ UNCHANGED <<host, mode, total, taken, answer, flash, writes>>

(* a page that is cancelled on its way *)
PageLost ==
    /\ inbox # NoPage
    /\ inbox' = NoPage
    /\ UNCHANGED <<host, mode, total, taken, answer, ack, flash, writes>>

-----------------------------------------------------------------------------
Host ==
    \/ \E c \in Contents \union {NoContent} : Open(c)
    \/ ReadBack \/ ReadBackRefused
    \/ WritePage \/ ReadAck \/ ReadAckRefused
    \/ SessionFails \/ SessionDone

Keyboard ==
    \/ \E cmd \in Commands : Refuse(cmd)
    \/ PerformBegin \/ PerformHeader \/ PerformApply
    \/ \E cmd \in {"clock-init", "clock-data"} : PerformClock(cmd)
    \/ TakePage \/ RefusePage \/ PageLost

Next == Host \/ Keyboard

Spec == Init /\ [][Next]_vars

-----------------------------------------------------------------------------
(* Properties                                                              *)


(* The kinds of values the variables hold. *)
TypeOK ==
    /\ pc \in Commands \union {"closed", "page", "done"}
    /\ waiting \in BOOLEAN
    /\ content \in Contents \union {NoContent}
    /\ sent \in Nat
    /\ mode \in {"idle", "begun", "lcd", "clock"}
    /\ total \in Nat
    /\ taken \in Seq(Contents \X (Nat \ {0}))
    /\ inbox \in (Contents \X (Nat \ {0})) \union {NoPage}
    /\ answer \in {"none", "ack", "nack"}
    /\ ack \in {"none", "good", "bad"}
    /\ flash \in Seq(Contents \X (Nat \ {0}))
    /\ writes \in Nat

(* The flash holds the factory image or exactly the pages of one payload,   *)
(* in order, whatever sessions broke off before: nothing partial and       *)
(* nothing mixed is ever applied, since a session that missed an ACK never *)
(* gets to its apply command.                                              *)
FlashWhole == flash = <<>> \/ \E c \in Contents : flash = Whole(c)

(* An upload that ends without an exception has put its own payload on the  *)
(* keyboard: "an echoed command prefix with a zero status is still a NACK  *)
(* and must never be reported as success" (protocol.py:58).                *)
DoneMeansFlashed == pc = "done" /\ content # NoContent => flash = Whole(content)

(* What the sessions say of the flash, and what is in it, agree.            *)
FlashFollowsSessions == FlashWhole /\ DoneMeansFlashed

(* A session is what FlashWear takes it for: an upload writes the flash at  *)
(* most once, and a clock session never, even after a broken upload.       *)
Transfer == INSTANCE FlashTransfer WITH
    stage <- CASE pc = "closed"        -> "none"
               [] pc # "closed" /\ content = NoContent -> "clock"
               [] OTHER -> IF pc = "done" \/ (pc = "apply" /\ answer = "ack")
                           THEN "settle" ELSE "write"

ImplementsTransfer == Transfer!TransferSpec
=============================================================================
