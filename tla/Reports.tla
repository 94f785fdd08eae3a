------------------------------- MODULE Reports -------------------------------
(***************************************************************************)
(* The daily report by mail: the reporter that runs at start and after     *)
(* each midnight, the settings it reads row by row, the page that saves    *)
(* them row by row, and the mark of the last reported day, which outlives  *)
(* the process.  Day d is reported from day d + 1 on; what a report says   *)
(* is left out.                                                            *)
(***************************************************************************)
EXTENDS Integers

CONSTANTS
  MaxDay,         \* bound: the last day
  MaxMailSaves,   \* bound: saves of the settings
  MaxMailFaults,  \* bound: failing queries, writes and mails
  MaxMailStarts   \* bound: starts of the process

ASSUME ReportsAssumption == MaxDay \in Nat \ {0}

VARIABLES
  day,       \* the current local day
  mail,      \* rows email_enabled, email_to, email_token: [on, to, token],
             \* the last two as whether there is one
  sentFor,   \* the row email_report_sent_for, 0 at first
  reporter,  \* where its goroutine is, the day it reports, its next waking
  page,      \* a call of SaveEmailSettings: where it is and its form
  mailed,    \* history: reports mailed per day
  excused,   \* history: days whose report may be missing
  again,     \* history: days whose report may go out twice
  mailSaves, mailFaults, mailStarts \* history: how many

mailVars == <<day, mail, sentFor, reporter, page, mailed, excused, again,
              mailSaves, mailFaults, mailStarts>>

Off == [at |-> "down", day |-> 0, wake |-> 0]
NoPage == [at |-> "idle", on |-> FALSE, to |-> FALSE, token |-> FALSE]

Blunder == mailFaults < MaxMailFaults /\ mailFaults' = mailFaults + 1

\* -- maybeSendDaily --------------------------------------------------------

ReporterAt(place) == reporter.at = place

\* The wait until the midnight after this moment.
Waiting == [at |-> "wait", day |-> 0, wake |-> day + 1]

Goes(place) == reporter' = [reporter EXCEPT !.at = place]

Wakes ==
  /\ ReporterAt("wait") /\ reporter.wake <= day
  /\ Goes("switch")
  /\ UNCHANGED <<day, mail, sentFor, page, mailed, excused, again, mailSaves,
                 mailFaults, mailStarts>>

\* GetEmailConfig reads one row after the other.
ReadRow(place, next) ==
  /\ ReporterAt(place)
  /\ Goes(next)
  /\ UNCHANGED <<day, mail, sentFor, page, mailed, excused, again, mailSaves,
                 mailFaults, mailStarts>>

ReadSwitch == mail.on /\ ReadRow("switch", "token")
ReadToken == mail.token /\ ReadRow("token", "to")

\* The clock is read once the settings are: the last day that is over.
ReadTo ==
  /\ ReporterAt("to") /\ mail.to
  /\ reporter' = [reporter EXCEPT !.at = "mark?", !.day = day - 1]
  /\ UNCHANGED <<day, mail, sentFor, page, mailed, excused, again, mailSaves,
                 mailFaults, mailStarts>>

Stops ==
  /\ reporter' = Waiting
  /\ UNCHANGED <<day, mail, sentFor, page, mailed, again, mailSaves, mailStarts>>

NotWanted ==
  /\ \/ ReporterAt("switch") /\ ~ mail.on
     \/ ReporterAt("token") /\ ~ mail.token
     \/ ReporterAt("to") /\ ~ mail.to
  /\ Stops
  /\ excused' = excused \cup {day - 1}
  /\ UNCHANGED mailFaults

ReadRowFails ==
  /\ reporter.at \in {"switch", "token", "to"} /\ Blunder
  /\ Stops
  /\ excused' = excused \cup {day - 1}

AlreadySent ==
  /\ ReporterAt("mark?") /\ sentFor = reporter.day
  /\ Stops
  /\ UNCHANGED <<excused, mailFaults>>

\* An error of this read does not stop the report.
NotYetSent(failed) ==
  /\ ReporterAt("mark?")
  /\ IF failed THEN Blunder ELSE sentFor # reporter.day /\ UNCHANGED mailFaults
  /\ Goes("send")
  /\ again' = IF failed THEN again \cup {reporter.day} ELSE again
  /\ UNCHANGED <<day, mail, sentFor, page, mailed, excused, mailSaves, mailStarts>>

\* The queries of the report fail, or the mail before the server has all of it:
\* the day is not marked.
ReportFails ==
  /\ ReporterAt("send") /\ Blunder
  /\ Stops
  /\ excused' = excused \cup {reporter.day}

\* The server has the mail, but its answer to the end of the data is lost or QUIT
\* returns an error: for the reporter the mail failed, and the day is not marked.
SentWithError ==
  /\ ReporterAt("send") /\ Blunder
  /\ mailed' = [mailed EXCEPT ![reporter.day] = @ + 1]
  /\ again' = again \cup {reporter.day}
  /\ reporter' = Waiting
  /\ UNCHANGED <<day, mail, sentFor, page, excused, mailSaves, mailStarts>>

Send ==
  /\ ReporterAt("send")
  /\ mailed' = [mailed EXCEPT ![reporter.day] = @ + 1]
  /\ Goes("mark")
  /\ UNCHANGED <<day, mail, sentFor, page, excused, again, mailSaves, mailFaults,
                 mailStarts>>

\* Mutant: a report is not marked as sent.
NotMarked ==
  /\ ReporterAt("mark")
  /\ reporter' = Waiting
  /\ UNCHANGED <<day, mail, sentFor, page, mailed, excused, again, mailSaves,
                 mailFaults, mailStarts>>

MarkSent ==
  /\ ReporterAt("mark")
  /\ sentFor' = reporter.day
  /\ reporter' = Waiting
  /\ UNCHANGED <<day, mail, page, mailed, excused, again, mailSaves, mailFaults,
                 mailStarts>>

MarkFails ==
  /\ ReporterAt("mark") /\ Blunder
  /\ again' = again \cup {reporter.day}
  /\ reporter' = Waiting
  /\ UNCHANGED <<day, mail, sentFor, page, mailed, excused, mailSaves, mailStarts>>

\* -- SaveEmailSettings -----------------------------------------------------

\* A blank token keeps the stored one, or none if reading it failed, an error
\* that is dropped; on without both is refused.
OpenPage(failed) ==
  /\ page.at = "idle" /\ mailSaves < MaxMailSaves /\ mailSaves' = mailSaves + 1
  /\ IF failed THEN Blunder ELSE UNCHANGED mailFaults
  /\ \E on, to, token \in BOOLEAN :
       LET kept == token \/ (mail.token /\ ~ failed)
       IN /\ on => to /\ kept
          /\ page' = [at |-> "both", on |-> on, to |-> to, token |-> kept]
  /\ UNCHANGED <<day, mail, sentFor, reporter, mailed, excused, again, mailStarts>>

PageWrites(at, next, m) ==
  /\ page.at = at
  /\ mail' = m
  /\ page' = IF next = "idle" THEN NoPage ELSE [page EXCEPT !.at = next]
  /\ UNCHANGED <<day, sentFor, reporter, mailed, excused, again, mailSaves,
                 mailFaults, mailStarts>>

\* SetEmailConfig ranges over a map: the first two rows in either order.
WriteMailRow ==
  \/ PageWrites("both", "to", [mail EXCEPT !.on = page.on])
  \/ PageWrites("both", "on", [mail EXCEPT !.to = page.to])
  \/ PageWrites("to", "token", [mail EXCEPT !.to = page.to])
  \/ PageWrites("on", "token", [mail EXCEPT !.on = page.on])
  \/ PageWrites("token", "idle", [mail EXCEPT !.token = page.token])

WriteMailRowFails ==
  /\ page.at # "idle" /\ Blunder
  /\ page' = NoPage
  /\ UNCHANGED <<day, mail, sentFor, reporter, mailed, excused, again, mailSaves,
                 mailStarts>>

\* -- The process and the clock ---------------------------------------------

StartReporter ==
  /\ ReporterAt("down") /\ mailStarts < MaxMailStarts /\ mailStarts' = mailStarts + 1
  /\ Goes("switch")
  /\ UNCHANGED <<day, mail, sentFor, page, mailed, excused, again, mailSaves,
                 mailFaults>>

\* The process ends anywhere, also between the mail and its mark.
Crash ==
  /\ ~ ReporterAt("down")
  /\ reporter' = Off /\ page' = NoPage
  /\ again' = IF ReporterAt("mark") THEN again \cup {reporter.day} ELSE again
  /\ UNCHANGED <<day, mail, sentFor, mailed, excused, mailSaves, mailFaults, mailStarts>>

\* A waiting reporter wakes within the day.  A run that goes on over midnight
\* waits for the midnight after it, and the day that ends now is passed over;
\* so is, while the process is down, the day before.
Midnight ==
  /\ day < MaxDay /\ day' = day + 1
  /\ ~ (ReporterAt("wait") /\ reporter.wake <= day)
  /\ excused' = excused \cup (IF ReporterAt("down") THEN {day - 1}
                              ELSE IF ReporterAt("wait") THEN {}
                              ELSE {day - 1, day})
  /\ UNCHANGED <<mail, sentFor, reporter, page, mailed, again, mailSaves, mailFaults,
                 mailStarts>>

InitReports ==
  /\ day = 1 /\ sentFor = 0 /\ reporter = [Off EXCEPT !.at = "switch"] /\ page = NoPage
  /\ mail \in {[on |-> TRUE, to |-> TRUE, token |-> TRUE],
               [on |-> FALSE, to |-> FALSE, token |-> FALSE]}
  /\ mailed = [d \in 0 .. MaxDay |-> 0] /\ excused = {} /\ again = {}
  /\ mailSaves = 0 /\ mailFaults = 0 /\ mailStarts = 1

ReporterStep ==
  \/ Wakes \/ ReadSwitch \/ ReadToken \/ ReadTo \/ NotWanted \/ ReadRowFails
  \/ AlreadySent \/ (\E failed \in BOOLEAN : NotYetSent(failed))
  \/ ReportFails \/ SentWithError \/ Send \/ MarkSent \/ MarkFails

NextReports ==
  \/ ReporterStep
  \/ (\E failed \in BOOLEAN : OpenPage(failed))
  \/ WriteMailRow \/ WriteMailRowFails
  \/ StartReporter \/ Crash \/ Midnight

SpecReports == InitReports /\ [][NextReports]_mailVars

\* The queries and the mail end; a stopped process is started again, unless it
\* is for good.
FairReports == WF_mailVars(ReporterStep) /\ WF_mailVars(StartReporter)

\* -- Properties ------------------------------------------------------------

TypeOKReports ==
  /\ day \in 1 .. MaxDay /\ sentFor \in 0 .. day - 1
  /\ reporter.day \in 0 .. day - 1 /\ reporter.wake \in 0 .. day + 1

\* The Reporter's comment: "a restart right after midnight (or downtime across
\* midnight) neither duplicates" a report.  Two mails for one day need a mark
\* that was not written or could not be read, or a mail that the server took while
\* the reporter was told it failed.
OneReportPerDay == \A d \in 0 .. MaxDay : mailed[d] > 1 => d \in again

\* "nor permanently skips a report": while the process is not down for good, a
\* day that is over is reported, unless the report failed or was switched off,
\* or the process was down or still busy with another over the next midnight.
NoDayIsSkipped ==
  \A d \in 1 .. MaxDay - 1 :
    (day = d + 1) ~> \/ mailed[d] > 0 \/ d \in excused
                     \/ ReporterAt("down") /\ mailStarts = MaxMailStarts

=============================================================================
