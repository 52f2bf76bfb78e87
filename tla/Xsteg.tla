------------------------------- MODULE Xsteg -------------------------------
(***************************************************************************)
(* xsteg.c: the GTK front end.  One libevent loop drives everything: a     *)
(* timer runs the pending GTK events, and four more events feed file names *)
(* to a stegdetect child, read its results, restart it after it ended and  *)
(* note SIGCHLD.  "Open" on a directory scans it inside a GTK callback and *)
(* runs the GTK events that are pending between two directory entries, so  *)
(* every GTK handler may run in the middle of a scan, a second scan too;   *)
(* no libevent callback may.                                               *)
(*                                                                         *)
(* A file name is its number, in order of adding.  The scan mask and the   *)
(* sensitivity are abstracted to the number of changes made so far, which  *)
(* is what tells an old setting from a new one.                            *)
(***************************************************************************)
EXTENDS Naturals, Sequences, FiniteSets

CONSTANTS
    Pids,         \* process ids that children get; a reaped id is used again
    NoChild,      \* sd_pid == -1
    MaxFiles,     \* bound: files added in a behaviour
    MaxChanges,   \* bound: changes of the settings
    MaxOpens,     \* bound: "Open" dialogs
    MaxFails      \* bound: children that fail, and failed reads

ASSUME PidsAssumption == NoChild \notin Pids
ASSUME BoundsAssumption ==
    /\ MaxFiles \in Nat
    /\ MaxChanges \in Nat
    /\ MaxOpens \in Nat
    /\ MaxFails \in Nat

VARIABLES
    running,      \* main() is in event_dispatch()
    phase,        \* "loop", or "gtk" while gtk_cb() runs GTK events
    quit, adding, stopped, change,
    settings,     \* number of settings changes so far
    queue,        \* filelist
    added,        \* number of files added so far
    dialogs,      \* file selectors on the screen
    depth,        \* open_ok_clicked() calls that are scanning a directory
    cancelled,    \* history: the scans that were running at a "Stop"
    opens, fails, \* counters of the bounded events
    sd_pid,
    stdin_open,   \* chld_stdin is an open descriptor
    ev_stdin, ev_read, gtk_ev, start_ev,   \* the event is pending
    gotsig,       \* event_gotsig
    cstatus, csettings, ceof, cintr,       \* the children, by process id
    cin, cout,    \* their pipes: names not yet read, results not yet read
    shown,        \* files with a row in the result list
    flushed, lost \* history: files a "Stop" dropped, files whose write() failed

uiVars    == <<phase, quit, adding, stopped, dialogs, depth, cancelled, opens>>
listVars  == <<queue, added, change, flushed, lost>>
connVars  == <<sd_pid, stdin_open, ev_stdin, ev_read>>
timerVars == <<gtk_ev, start_ev, gotsig>>
childVars == <<cstatus, csettings, ceof, cintr, cin, cout>>
restVars  == <<running, settings, fails, shown>>
vars == <<uiVars, listVars, connVars, timerVars, childVars, restVars>>

Entry == [id : Nat, change : BOOLEAN, settings : Nat]

Init ==
    /\ running = TRUE /\ phase = "loop" /\ gtk_ev = TRUE
    /\ quit = FALSE /\ adding = FALSE /\ stopped = FALSE /\ change = FALSE
    /\ settings = 0 /\ queue = <<>> /\ added = 0
    /\ dialogs = 0 /\ depth = 0 /\ cancelled = {} /\ opens = 0 /\ fails = 0
    /\ sd_pid = NoChild /\ stdin_open = FALSE
    /\ ev_stdin = FALSE /\ ev_read = FALSE /\ start_ev = FALSE /\ gotsig = FALSE
    /\ cstatus = [p \in Pids |-> "none"]
    /\ csettings = [p \in Pids |-> 0]
    /\ ceof = [p \in Pids |-> FALSE] /\ cintr = [p \in Pids |-> FALSE]
    /\ cin = [p \in Pids |-> <<>>] /\ cout = [p \in Pids |-> <<>>]
    /\ shown = {} /\ flushed = {} /\ lost = {}

-----------------------------------------------------------------------------
(* The child and the connection to it.                                     *)

\* Everything of stegdetect_start() but ev_stdin, which its two callers arm.
\* p is the process id that fork() returns.
StegdetectStart(p) ==
    /\ cstatus[p] = "none" /\ p # sd_pid
    /\ sd_pid' = p
    /\ stdin_open' = TRUE
    /\ ev_read' = TRUE
    /\ cstatus' = [cstatus EXCEPT ![p] = "run"]
    /\ csettings' = [csettings EXCEPT ![p] = settings]
    /\ ceof' = [ceof EXCEPT ![p] = FALSE]
    /\ cintr' = [cintr EXCEPT ![p] = FALSE]
    /\ cin' = [cin EXCEPT ![p] = <<>>]
    /\ cout' = [cout EXCEPT ![p] = <<>>]

\* The bug a missing event_del(&ev_stdin) would be.
StopKeepsEvent ==
    IF sd_pid = NoChild THEN UNCHANGED <<connVars, childVars>> ELSE
    /\ sd_pid' = NoChild
    /\ stdin_open' = FALSE /\ ev_read' = FALSE
    /\ ceof' = [ceof EXCEPT ![sd_pid] = TRUE]
    /\ cout' = [cout EXCEPT ![sd_pid] = <<>>]
    /\ cintr' = [cintr EXCEPT ![sd_pid] = TRUE]
    /\ UNCHANGED <<ev_stdin, cstatus, csettings, cin>>

\* The bug leaving the rest of the stop to SIGCHLD would be.
StopOnlyKills ==
    IF sd_pid = NoChild THEN UNCHANGED <<connVars, childVars>> ELSE
    /\ cintr' = [cintr EXCEPT ![sd_pid] = TRUE]
    /\ UNCHANGED <<connVars, cstatus, csettings, ceof, cin, cout>>

\* Closing the pipes ends the child's input and drops the results that were
\* not read; kill() of a child that already ended does nothing.
StegdetectStop ==
    IF sd_pid = NoChild THEN UNCHANGED <<connVars, childVars>> ELSE
    /\ sd_pid' = NoChild
    /\ stdin_open' = FALSE /\ ev_stdin' = FALSE /\ ev_read' = FALSE
    /\ ceof' = [ceof EXCEPT ![sd_pid] = TRUE]
    /\ cout' = [cout EXCEPT ![sd_pid] = <<>>]
    /\ cintr' = [cintr EXCEPT ![sd_pid] = TRUE]
    /\ UNCHANGED <<cstatus, csettings, cin>>

-----------------------------------------------------------------------------
(* The file list.                                                          *)

Names(s) == {s[k].id : k \in 1..Len(s)}

\* The files a child was sent and whose results were not read yet.
Holds(p) == Names(cin[p]) \cup Names(cout[p])

NewEntry == [id |-> added + 1, change |-> change, settings |-> settings]

\* The bug a forgotten change flag would be.
AddWithoutChange ==
    /\ added < MaxFiles
    /\ added' = added + 1
    /\ queue' = Append(queue, [NewEntry EXCEPT !.change = FALSE])
    /\ change' = FALSE
    /\ UNCHANGED <<flushed, lost>>
    /\ ev_stdin' = TRUE
    /\ IF sd_pid = NoChild
       THEN \E p \in Pids : StegdetectStart(p)
       ELSE UNCHANGED <<sd_pid, stdin_open, ev_read, childVars>>

\* The bug inserting at the head of the list would be.
AddAtHead ==
    /\ added < MaxFiles
    /\ added' = added + 1
    /\ queue' = <<NewEntry>> \o queue
    /\ change' = FALSE
    /\ UNCHANGED <<flushed, lost>>
    /\ ev_stdin' = TRUE
    /\ IF sd_pid = NoChild
       THEN \E p \in Pids : StegdetectStart(p)
       ELSE UNCHANGED <<sd_pid, stdin_open, ev_read, childVars>>

FilenameAdd ==
    /\ added < MaxFiles
    /\ added' = added + 1
    /\ queue' = Append(queue, NewEntry)
    /\ change' = FALSE
    /\ UNCHANGED <<flushed, lost>>
    /\ ev_stdin' = TRUE
    /\ IF sd_pid = NoChild
       THEN \E p \in Pids : StegdetectStart(p)
       ELSE UNCHANGED <<sd_pid, stdin_open, ev_read, childVars>>

-----------------------------------------------------------------------------
(* GTK handlers: they run inside gtk_cb(), between two entries of a scan   *)
(* too.                                                                    *)

InGtk == running /\ phase = "gtk"

\* The "Stop" button is sensitive only while there is a child.
StopClicked ==
    /\ InGtk /\ sd_pid # NoChild
    /\ stopped' = (stopped \/ adding)
    /\ queue' = <<>>                              \* filename_flush()
    /\ flushed' = flushed \cup Names(queue)
    /\ StegdetectStop
    /\ cancelled' = 1..depth
    /\ UNCHANGED <<phase, quit, adding, dialogs, depth, opens, added, change, lost,
                   timerVars, restVars>>

\* sensitivity_change(), and select_scan() for a button it knows.
SettingsChange ==
    /\ InGtk /\ settings < MaxChanges
    /\ settings' = settings + 1
    /\ change' = (change \/ sd_pid # NoChild)
    /\ UNCHANGED <<uiVars, queue, added, flushed, lost, connVars, timerVars, childVars, running, fails, shown>>

XstegDie ==
    /\ InGtk
    /\ StegdetectStop
    /\ quit' = TRUE
    /\ UNCHANGED <<phase, adding, stopped, dialogs, depth, cancelled, opens, listVars, timerVars, restVars>>

\* The menu item is insensitive while adding is set.  The dialog is not modal,
\* so there may be several.
MenuOpen ==
    /\ InGtk /\ ~adding /\ opens < MaxOpens
    /\ opens' = opens + 1
    /\ dialogs' = dialogs + 1
    /\ UNCHANGED <<phase, quit, adding, stopped, depth, cancelled, listVars, connVars, timerVars,
                   childVars, restVars>>

\* A dialog goes away: part of confirming it, or all that happens when it is
\* cancelled or confirmed with a name that does not exist.
CloseDialog == dialogs > 0 /\ dialogs' = dialogs - 1

DialogDismissed ==
    /\ InGtk /\ CloseDialog
    /\ UNCHANGED <<phase, quit, adding, stopped, depth, cancelled, opens, listVars, connVars,
                   timerVars, childVars, restVars>>

\* open_ok_clicked() on a regular file, start to end.
OpenFile ==
    /\ InGtk /\ CloseDialog
    /\ FilenameAdd
    /\ adding' = FALSE
    /\ UNCHANGED <<phase, quit, stopped, depth, cancelled, opens, timerVars, restVars>>

\* open_ok_clicked() on a directory, up to its first entry.  Its recursion
\* into subdirectories is flattened: a -1 unwinds all of them.
OpenDir ==
    /\ InGtk /\ CloseDialog
    /\ depth' = depth + 1
    /\ adding' = TRUE
    /\ UNCHANGED <<phase, quit, stopped, cancelled, opens, listVars, connVars, timerVars, childVars, restVars>>

\* open_ok_clicked() on a directory that opendir() refuses.
OpenUnreadable ==
    /\ InGtk /\ CloseDialog
    /\ adding' = FALSE
    /\ UNCHANGED <<phase, quit, stopped, depth, cancelled, opens, listVars, connVars, timerVars, childVars, restVars>>

\* The innermost scan returns to open_ok_clicked(), which clears adding.
ScanReturns ==
    /\ depth' = depth - 1
    /\ cancelled' = cancelled \ {depth}
    /\ adding' = FALSE

\* The next entry of the innermost scan: the scan notices a "Stop"...
ScanStopped ==
    /\ InGtk /\ depth > 0 /\ stopped
    /\ stopped' = FALSE
    /\ ScanReturns
    /\ UNCHANGED <<phase, quit, dialogs, opens, listVars, connVars, timerVars, childVars, restVars>>

\* ...or adds a JPEG file, which may be the last entry...
ScanAdd(last) ==
    /\ InGtk /\ depth > 0 /\ ~stopped
    /\ FilenameAdd
    /\ IF last THEN ScanReturns ELSE UNCHANGED <<depth, cancelled, adding>>
    /\ UNCHANGED <<phase, quit, stopped, dialogs, opens, timerVars, restVars>>

\* ...or skips the last entry and returns.
ScanEnd ==
    /\ InGtk /\ depth > 0 /\ ~stopped
    /\ ScanReturns
    /\ UNCHANGED <<phase, quit, stopped, dialogs, opens, listVars, connVars, timerVars, childVars, restVars>>

-----------------------------------------------------------------------------
(* libevent callbacks, one at a time, in any order.  signal_cb() runs at   *)
(* the top of the loop; a callback that precedes it here is one that ran   *)
(* before SIGCHLD arrived.                                                 *)

InLoop == running /\ phase = "loop"

GtkCb ==
    /\ InLoop /\ gtk_ev
    /\ phase' = "gtk" /\ gtk_ev' = FALSE
    /\ UNCHANGED <<quit, adding, stopped, dialogs, depth, cancelled, opens, listVars, connVars,
                   start_ev, gotsig, childVars, restVars>>

\* The bug an unconditional add_gtk_timeout() would be.
GtkCbEndRearms ==
    /\ InGtk /\ depth = 0
    /\ phase' = "loop" /\ gtk_ev' = TRUE
    /\ UNCHANGED <<quit, adding, stopped, dialogs, depth, cancelled, opens, listVars, connVars,
                   start_ev, gotsig, childVars, restVars>>

\* No GTK event is pending any more: add_gtk_timeout().
GtkCbEnd ==
    /\ InGtk /\ depth = 0
    /\ phase' = "loop" /\ gtk_ev' = ~quit
    /\ UNCHANGED <<quit, adding, stopped, dialogs, depth, cancelled, opens, listVars, connVars,
                   start_ev, gotsig, childVars, restVars>>

\* Starts a child whether there is one or not.
DelayedStart ==
    /\ InLoop /\ start_ev
    /\ start_ev' = FALSE
    /\ \E p \in Pids : StegdetectStart(p)
    /\ ev_stdin' = (queue # <<>>)
    /\ UNCHANGED <<uiVars, listVars, gtk_ev, gotsig, restVars>>

\* The settings changed before this file: close the pipe, so that the child
\* ends after the files it has.
ChldWriteChange ==
    /\ InLoop /\ ev_stdin /\ queue # <<>> /\ Head(queue).change
    /\ queue' = [queue EXCEPT ![1].change = FALSE]
    /\ stdin_open' = FALSE /\ ev_stdin' = FALSE
    /\ ceof' = [ceof EXCEPT ![sd_pid] = TRUE]
    /\ UNCHANGED <<uiVars, added, change, flushed, lost, sd_pid, ev_read, timerVars,
                   cstatus, csettings, cintr, cin, cout, restVars>>

\* The bug not adding the event again would be.
WriteOnce ==
    /\ InLoop /\ ev_stdin /\ queue # <<>> /\ ~Head(queue).change
    /\ queue' = Tail(queue)
    /\ ev_stdin' = FALSE
    /\ cin' = IF stdin_open /\ cstatus[sd_pid] = "run"
              THEN [cin EXCEPT ![sd_pid] = Append(@, Head(queue))] ELSE cin
    /\ lost' = IF stdin_open /\ cstatus[sd_pid] = "run"
               THEN lost ELSE lost \cup {Head(queue).id}
    /\ UNCHANGED running
    /\ UNCHANGED <<uiVars, added, change, flushed, sd_pid, stdin_open, ev_read, timerVars,
                   cstatus, csettings, ceof, cintr, cout, settings, fails, shown>>

\* A name reaches the child if the descriptor is open and the child is alive.
\* Otherwise the unchecked write() fails and the name is lost: lost is the only
\* place that knows it, as the code has freed it by then.  On the pipe of
\* a dead child SIGPIPE, which xsteg.c leaves at its default, may end xsteg.
ChldWrite ==
    /\ InLoop /\ ev_stdin /\ queue # <<>> /\ ~Head(queue).change
    /\ queue' = Tail(queue)
    /\ ev_stdin' = (Tail(queue) # <<>>)
    /\ cin' = IF stdin_open /\ cstatus[sd_pid] = "run"
              THEN [cin EXCEPT ![sd_pid] = Append(@, Head(queue))] ELSE cin
    /\ lost' = IF stdin_open /\ cstatus[sd_pid] = "run"
               THEN lost ELSE lost \cup {Head(queue).id}
    /\ \/ UNCHANGED running
       \/ stdin_open /\ cstatus[sd_pid] # "run" /\ running' = FALSE
    /\ UNCHANGED <<uiVars, added, change, flushed, sd_pid, stdin_open, ev_read, timerVars,
                   cstatus, csettings, ceof, cintr, cout, settings, fails, shown>>

\* n lines come out of the pipe; the last is lost when the end of the
\* 1023-byte buffer cuts it.
ChldRead ==
    /\ InLoop /\ ev_read
    /\ \E n \in 1..Len(cout[sd_pid]), cut \in 0..1 :
         /\ cout' = [cout EXCEPT ![sd_pid] = SubSeq(@, n + 1, Len(@))]
         /\ shown' = shown \cup {cout[sd_pid][k].id : k \in 1..(n - cut)}
    /\ UNCHANGED <<uiVars, listVars, connVars, timerVars,
                   cstatus, csettings, ceof, cintr, cin, running, settings, fails>>

ChldReadError ==
    /\ InLoop /\ ev_read /\ fails < MaxFails
    /\ fails' = fails + 1
    /\ StegdetectStop
    /\ UNCHANGED <<uiVars, listVars, timerVars, running, settings, shown>>

\* The bug of not restarting when files are left would be.
SignalNoRestart ==
    /\ InLoop /\ gotsig
    /\ gotsig' = FALSE
    /\ StegdetectStop
    /\ UNCHANGED <<uiVars, listVars, gtk_ev, start_ev, restVars>>

\* Whatever child the signal was for, the current one is stopped.
SignalCb ==
    /\ InLoop /\ gotsig
    /\ gotsig' = FALSE
    /\ StegdetectStop
    /\ start_ev' = (start_ev \/ queue # <<>>)
    /\ UNCHANGED <<uiVars, listVars, gtk_ev, restVars>>

\* event_dispatch() returns when no event is pending, or when the poll of a
\* closed descriptor fails; main() then stops the child and returns.
DispatchReturns ==
    /\ InLoop /\ ~gotsig
    /\ \/ ~(ev_stdin \/ ev_read \/ gtk_ev \/ start_ev)
       \/ ev_stdin /\ ~stdin_open
    /\ StegdetectStop
    /\ running' = FALSE
    /\ UNCHANGED <<uiVars, listVars, timerVars, settings, fails, shown>>

-----------------------------------------------------------------------------
(* The children: stegdetect reading file names from its standard input.    *)

ChildAnalyse(p) ==
    /\ running /\ cstatus[p] = "run" /\ ~cintr[p] /\ cin[p] # <<>>
    /\ cin' = [cin EXCEPT ![p] = Tail(@)]
    /\ cout' = [cout EXCEPT ![p] = Append(@, Head(cin[p]))]
    /\ UNCHANGED <<uiVars, listVars, connVars, timerVars, cstatus, csettings, ceof, cintr, restVars>>

\* End of file on its input, or SIGINT, which stegdetect does not catch.
ChildExit(p) ==
    /\ running /\ cstatus[p] = "run"
    /\ cintr[p] \/ (ceof[p] /\ cin[p] = <<>>)
    /\ cstatus' = [cstatus EXCEPT ![p] = "zombie"]
    /\ UNCHANGED <<uiVars, listVars, connVars, timerVars, csettings, ceof, cintr, cin, cout, restVars>>

\* A child that cannot be executed, refuses its arguments or crashes.
ChildFail(p) ==
    /\ running /\ cstatus[p] = "run" /\ fails < MaxFails
    /\ fails' = fails + 1
    /\ cstatus' = [cstatus EXCEPT ![p] = "zombie"]
    /\ UNCHANGED <<uiVars, listVars, connVars, timerVars, csettings, ceof, cintr, cin, cout,
                   running, settings, shown>>

\* SIGCHLD arrives at any time; the handler reaps every child that ended and
\* sets one flag for all of them.
ChldHandler ==
    /\ running /\ \E p \in Pids : cstatus[p] = "zombie"
    /\ cstatus' = [p \in Pids |-> IF cstatus[p] = "zombie" THEN "none" ELSE cstatus[p]]
    /\ gotsig' = TRUE
    /\ UNCHANGED <<uiVars, listVars, connVars, gtk_ev, start_ev, csettings, ceof, cintr, cin, cout,
                   restVars>>

-----------------------------------------------------------------------------

ScanStep == ScanStopped \/ ScanAdd(TRUE) \/ ScanAdd(FALSE) \/ ScanEnd

Handlers == StopClicked \/ SettingsChange \/ XstegDie
            \/ MenuOpen \/ DialogDismissed \/ OpenFile \/ OpenDir \/ OpenUnreadable

Callbacks ==
    \/ GtkCb \/ GtkCbEnd \/ DelayedStart
    \/ ChldWriteChange \/ ChldWrite
    \/ ChldRead \/ ChldReadError \/ SignalCb \/ DispatchReturns

Children == \E p \in Pids : ChildAnalyse(p) \/ ChildExit(p) \/ ChildFail(p)

Next == Handlers \/ ScanStep \/ Callbacks \/ Children \/ ChldHandler

Spec == Init /\ [][Next]_vars

\* The loop dispatches every event that is ready in each round, so a callback
\* that is ready again and again runs; gtk_cb() and a scan end because the
\* pending GTK events and a directory are finite; processes get the processor.
Fairness ==
    /\ SF_vars(ChldWriteChange) /\ SF_vars(stdin_open /\ ChldWrite)
    /\ SF_vars(ChldRead) /\ SF_vars(SignalCb) /\ SF_vars(DelayedStart)
    /\ WF_vars(GtkCbEnd) /\ WF_vars(ScanStep)
    /\ WF_vars(DispatchReturns) /\ WF_vars(ChldHandler)
    /\ \A p \in Pids : WF_vars(ChildAnalyse(p)) /\ WF_vars(ChildExit(p))

FairSpec == Spec /\ Fairness

-----------------------------------------------------------------------------
(* Properties.                                                             *)

\* Every variable has its type; the history of cancelled scans speaks only of
\* scans that are running, and adding is clear when no scan is.
TypeOK ==
    /\ running \in BOOLEAN /\ phase \in {"loop", "gtk"}
    /\ quit \in BOOLEAN /\ adding \in BOOLEAN /\ stopped \in BOOLEAN /\ change \in BOOLEAN
    /\ settings \in Nat /\ added \in Nat /\ opens \in Nat /\ fails \in Nat
    /\ queue \in Seq(Entry)
    /\ dialogs \in Nat /\ depth \in Nat /\ cancelled \subseteq 1..depth
    /\ adding => depth > 0
    /\ sd_pid \in Pids \cup {NoChild}
    /\ stdin_open \in BOOLEAN /\ ev_stdin \in BOOLEAN /\ ev_read \in BOOLEAN
    /\ gtk_ev \in BOOLEAN /\ start_ev \in BOOLEAN /\ gotsig \in BOOLEAN
    /\ cstatus \in [Pids -> {"none", "run", "zombie"}]
    /\ csettings \in [Pids -> Nat]
    /\ ceof \in [Pids -> BOOLEAN] /\ cintr \in [Pids -> BOOLEAN]
    /\ cin \in [Pids -> Seq(Entry)] /\ cout \in [Pids -> Seq(Entry)]
    /\ shown \subseteq Nat /\ flushed \subseteq Nat /\ lost \subseteq Nat

\* No callback is left armed on the pipes of a child that stegdetect_stop() has
\* closed, and a current child is always listened to: otherwise chld_write()
\* or chld_read() would use a descriptor number that something else owns.  And
\* chld_write() never finds the list empty, so its early return is no action.
EventsFollowChild ==
    /\ sd_pid = NoChild => ~ev_stdin /\ ~ev_read /\ ~stdin_open
    /\ sd_pid # NoChild => ev_read
    /\ ev_stdin => queue # <<>>

\* filename->change ("need restart stegdetect", xsteg.h): a file is never
\* analysed with settings older than those in force when it was added, however
\* adding, changes, stops, restarts and child deaths interleave.
FreshSettings ==
    \A p \in Pids :
        /\ \A k \in 1..Len(cin[p]) : cin[p][k].settings <= csettings[p]
        /\ \A k \in 1..Len(cout[p]) : cout[p][k].settings <= csettings[p]

\* A SIGCHLD that signal_cb() has not seen yet is on its way: the flag is set,
\* or a child ended, or one is bound to end.
SignalComing ==
    \/ gotsig
    \/ \E p \in Pids : \/ cstatus[p] = "zombie"
                       \/ cstatus[p] = "run" /\ (cintr[p] \/ ceof[p])

\* Files left in the list are never forgotten: chld_write() is armed on an open
\* pipe, or a restart is scheduled, or the signal that schedules one will come.
\* This is what the re-adding of ev_stdin in four places has to achieve.
NoLostWakeup ==
    running /\ queue # <<>> =>
        \/ ev_stdin /\ stdin_open
        \/ start_ev
        \/ SignalComing

Ids(s) == [k \in 1..Len(s) |-> s[k].id]

\* A file is in one place only: in the list, with one child, or in the results.
AtMostOnce ==
    \A i \in 1..added :
        LET in(s) == \E k \in 1..Len(s) : s[k].id = i
            holders == {p \in Pids : in(cin[p]) \/ in(cout[p])}
        IN  /\ Cardinality(holders) <= 1
            /\ in(queue) \/ i \in shown => holders = {}
            /\ in(queue) => i \notin shown

\* The files a child got and the list behind the current child are in the
\* order of adding, none twice, over any number of restarts; and no file is with
\* two children, or still listed when it is with one or in the results.
InOrder ==
    /\ \A p \in Pids :
        LET line == Ids(cout[p]) \o Ids(cin[p]) \o Ids(IF p = sd_pid THEN queue ELSE <<>>)
        IN  \A j, k \in 1..Len(line) : j < k => line[j] < line[k]
    /\ AtMostOnce

\* A file in the list does not stay there: it is written to a living child, or
\* a "Stop" drops it, or its write() fails, or xsteg ends.  That the write event
\* is armed again and children are restarted in time is what this needs.
ListDrains ==
    \A i \in 1..MaxFiles :
        i \in Names(queue) ~>
            (i \in flushed \/ i \in lost \/ (\E p \in Pids : i \in Holds(p)) \/ ~running)

\* The write() that chld_write() does not check loses a name on an open pipe only
\* when a child failed, and on a closed one only when the settings were changed:
\* no order of stops, restarts, scans, late signals and reused process ids makes
\* it write to a child that was told to end, or to one that is gone.
LossHasCause == [][lost' # lost => IF stdin_open THEN fails > 0 ELSE settings > 0]_vars

\* xsteg leaves its loop once the window is closed, provided the list is empty
\* and no restart is scheduled (otherwise the restarted child keeps it alive).
QuitExits ==
    (phase = "loop" /\ quit /\ queue = <<>> /\ sd_pid = NoChild /\ ~start_ev) ~> ~running

\* The tooltip of the "Stop" button, "Pressing this button stops all ongoing
\* detection work.": a scan that was running when "Stop" was pressed adds no
\* file afterwards.
StopEndsScan == [][added' > added /\ dialogs' = dialogs => depth \notin cancelled]_vars

\* signal_cb() reports "The stegdetect process terminated." of a child that did
\* terminate.
ReportedChildIsDead ==
    [][gotsig /\ ~gotsig' /\ sd_pid # NoChild => cstatus[sd_pid] # "run"]_vars

-----------------------------------------------------------------------------
(* The strengthening that makes the properties above inductive.            *)

\* What the change flags are for: while the pipe of the current child is open, a
\* file added after a change of the settings has a flagged file at or before it
\* in the list, and a change no file carries yet is still noted in "change".
ChangesFlagged ==
    /\ \A k \in 1..Len(queue) : queue[k].settings <= settings
    /\ sd_pid # NoChild /\ stdin_open =>
         /\ \A k \in 1..Len(queue) :
              queue[k].settings > csettings[sd_pid] => \E j \in 1..k : queue[j].change
         /\ settings > csettings[sd_pid] =>
              change \/ \E j \in 1..Len(queue) : queue[j].change

\* Who will wake the writer up, case by case.
WriterWoken ==
    /\ sd_pid # NoChild =>
         /\ cstatus[sd_pid] = "none" => gotsig
         /\ stdin_open /\ queue # <<>> => ev_stdin
         /\ ~stdin_open => ceof[sd_pid]
    /\ running /\ sd_pid = NoChild /\ queue # <<>> => start_ev \/ SignalComing

\* What LossHasCause rests on: files are flagged only by a change of the settings,
\* the pipe of the current child is closed only for a flagged file, and while it
\* is open nothing has told the child to end.
CauseKnown ==
    /\ settings = 0 => ~change /\ \A k \in 1..Len(queue) : ~queue[k].change
    /\ sd_pid # NoChild =>
         /\ ~cintr[sd_pid]
         /\ ~stdin_open => settings > 0
         /\ stdin_open => ~ceof[sd_pid] /\ (fails = 0 => cstatus[sd_pid] = "run")

IInv == TypeOK /\ EventsFollowChild /\ FreshSettings /\ ChangesFlagged /\ WriterWoken

\* The strengthening of InOrder: every sequence of files ascends, a child's
\* results come before its input and that before the list...
Ascends(s) == \A j, k \in 1..Len(s) : j < k => s[j].id < s[k].id

Precedes(s, t) == \A j \in 1..Len(s), k \in 1..Len(t) : s[j].id < t[k].id

InLine ==
    /\ Ascends(queue)
    /\ \A p \in Pids :
         /\ Ascends(cin[p]) /\ Ascends(cout[p]) /\ Precedes(cout[p], cin[p])
         /\ p = sd_pid => Precedes(cin[p], queue) /\ Precedes(cout[p], queue)

\* ...and a file, once added, is in the list, with one child, in the results or
\* lost, and in no two of these.
InOnePlace ==
    /\ Names(queue) \cup shown \subseteq 1..added
    /\ Names(queue) \cap shown = {}
    /\ \A p \in Pids :
         /\ Holds(p) \subseteq 1..added
         /\ Holds(p) \cap (Names(queue) \cup shown) = {}
         /\ \A q \in Pids \ {p} : Holds(p) \cap Holds(q) = {}

OrderInv == InLine /\ InOnePlace

=============================================================================
