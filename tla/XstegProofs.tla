---------------------------- MODULE XstegProofs ----------------------------
(***************************************************************************)
(* Proofs about Xsteg for every number of processes, files, settings       *)
(* changes, dialogs and failures: IInv is inductive, and the safety        *)
(* properties that TLC checks on small instances follow from it.           *)
(***************************************************************************)
EXTENDS Xsteg, SequenceFacts

-----------------------------------------------------------------------------
(* Type correctness.                                                       *)

\* stegdetect_start() and stegdetect_stop() keep the types of what they set.
LEMMA StartType ==
    ASSUME TypeOK, NEW p \in Pids, StegdetectStart(p)
    PROVE  /\ sd_pid' \in Pids \cup {NoChild} /\ stdin_open' \in BOOLEAN /\ ev_read' \in BOOLEAN
           /\ cstatus' \in [Pids -> {"none", "run", "zombie"}]
           /\ csettings' \in [Pids -> Nat]
           /\ ceof' \in [Pids -> BOOLEAN] /\ cintr' \in [Pids -> BOOLEAN]
           /\ cin' \in [Pids -> Seq(Entry)] /\ cout' \in [Pids -> Seq(Entry)]
<1>1. <<>> \in Seq(Entry)
  OBVIOUS
<1>2. QED
  BY <1>1 DEF TypeOK, StegdetectStart

LEMMA StopType ==
    ASSUME TypeOK, StegdetectStop
    PROVE  /\ sd_pid' \in Pids \cup {NoChild}
           /\ stdin_open' \in BOOLEAN /\ ev_stdin' \in BOOLEAN /\ ev_read' \in BOOLEAN
           /\ cstatus' \in [Pids -> {"none", "run", "zombie"}]
           /\ csettings' \in [Pids -> Nat]
           /\ ceof' \in [Pids -> BOOLEAN] /\ cintr' \in [Pids -> BOOLEAN]
           /\ cin' \in [Pids -> Seq(Entry)] /\ cout' \in [Pids -> Seq(Entry)]
<1>1. <<>> \in Seq(Entry)
  OBVIOUS
<1>2. QED
  BY <1>1 DEF TypeOK, StegdetectStop, connVars, childVars

\* The names of a sequence of files are numbers.
LEMMA NamesType ==
    ASSUME NEW s \in Seq(Entry)
    PROVE  Names(s) \subseteq Nat
<1>1. ASSUME NEW k \in 1..Len(s) PROVE s[k].id \in Nat
  <2>1. s[k] \in Entry
    OBVIOUS
  <2>2. QED
    BY <2>1 DEF Entry
<1>2. QED
  BY <1>1 DEF Names

LEMMA AddType ==
    ASSUME TypeOK, FilenameAdd
    PROVE  /\ added' \in Nat /\ change' \in BOOLEAN /\ queue' \in Seq(Entry)
           /\ flushed' \subseteq Nat /\ lost' \subseteq Nat
           /\ sd_pid' \in Pids \cup {NoChild}
           /\ stdin_open' \in BOOLEAN /\ ev_stdin' \in BOOLEAN /\ ev_read' \in BOOLEAN
           /\ cstatus' \in [Pids -> {"none", "run", "zombie"}]
           /\ csettings' \in [Pids -> Nat]
           /\ ceof' \in [Pids -> BOOLEAN] /\ cintr' \in [Pids -> BOOLEAN]
           /\ cin' \in [Pids -> Seq(Entry)] /\ cout' \in [Pids -> Seq(Entry)]
<1>1. NewEntry \in Entry
  BY DEF NewEntry, Entry, TypeOK
<1>2. change' \in BOOLEAN /\ flushed' \subseteq Nat /\ lost' \subseteq Nat
  BY DEF FilenameAdd, TypeOK
<1>3. added' \in Nat /\ queue' \in Seq(Entry) /\ ev_stdin' \in BOOLEAN
  BY <1>1 DEF FilenameAdd, TypeOK
<1>4. CASE sd_pid = NoChild
  <2>1. PICK p \in Pids : StegdetectStart(p)
    BY <1>4 DEF FilenameAdd
  <2>2. QED
    BY <1>2, <1>3, <2>1, StartType
<1>5. CASE sd_pid # NoChild
  BY <1>2, <1>3, <1>5 DEF FilenameAdd, TypeOK, childVars
<1>6. QED
  BY <1>4, <1>5

LEMMA ReturnsType ==
    ASSUME TypeOK, depth > 0, ScanReturns
    PROVE  /\ depth' \in Nat /\ cancelled' \subseteq 1..depth'
           /\ adding' \in BOOLEAN /\ ~adding'
<1>1. adding' \in BOOLEAN /\ ~adding'
  BY DEF ScanReturns
<1>2. depth' \in Nat /\ cancelled' \subseteq 1..depth'
  BY DEF TypeOK, ScanReturns
<1>3. QED
  BY <1>1, <1>2

LEMMA TypeInit == Init => TypeOK
<1> SUFFICES ASSUME Init PROVE TypeOK
  OBVIOUS
<1>1. /\ quit \in BOOLEAN /\ adding \in BOOLEAN /\ stopped \in BOOLEAN /\ change \in BOOLEAN
      /\ stdin_open \in BOOLEAN /\ ev_stdin \in BOOLEAN /\ ev_read \in BOOLEAN
      /\ start_ev \in BOOLEAN /\ gotsig \in BOOLEAN
  BY DEF Init
<1>2. <<>> \in Seq(Entry)
  OBVIOUS
<1>3. ceof \in [Pids -> BOOLEAN] /\ cintr \in [Pids -> BOOLEAN]
  BY DEF Init
<1>4. QED
  BY <1>1, <1>2, <1>3 DEF Init, TypeOK

\* chld_read() indexes the pipes by sd_pid, so types need EventsFollowChild.
LEMMA TypeNext == TypeOK /\ EventsFollowChild /\ [Next]_vars => TypeOK'
<1> SUFFICES ASSUME TypeOK, EventsFollowChild, [Next]_vars PROVE TypeOK'
  OBVIOUS
<1> USE DEF uiVars, listVars, connVars, timerVars, childVars, restVars
<1>1. CASE StopClicked
  <2>1. <<>> \in Seq(Entry) /\ (1..depth) \subseteq 1..depth
    OBVIOUS
  <2>2. flushed' \subseteq Nat
    BY <1>1, NamesType DEF StopClicked, TypeOK
  <2>3. QED
    BY <1>1, <2>1, <2>2, StopType DEF StopClicked, TypeOK
<1>2. CASE SettingsChange
  BY <1>2 DEF SettingsChange, TypeOK
<1>3. CASE XstegDie
  BY <1>3, StopType DEF XstegDie, TypeOK
<1>4. CASE MenuOpen
  BY <1>4 DEF MenuOpen, TypeOK
<1>5. CASE DialogDismissed
  BY <1>5 DEF DialogDismissed, CloseDialog, TypeOK
<1>6. CASE OpenFile
  <2>1. adding' \in BOOLEAN
    BY <1>6 DEF OpenFile
  <2>2. ~adding'
    BY <1>6 DEF OpenFile
  <2>3. dialogs' \in Nat
    BY <1>6 DEF OpenFile, CloseDialog, TypeOK
  <2>4. FilenameAdd
    BY <1>6 DEF OpenFile
  <2>5. QED
    BY <1>6, <2>1, <2>2, <2>3, <2>4, AddType DEF OpenFile, TypeOK
<1>7. CASE OpenDir
  BY <1>7 DEF OpenDir, CloseDialog, TypeOK
<1>8. CASE OpenUnreadable
  <2>1. adding' \in BOOLEAN
    BY <1>8 DEF OpenUnreadable
  <2>2. QED
    BY <1>8, <2>1 DEF OpenUnreadable, CloseDialog, TypeOK
<1>9. CASE ScanStopped
  <2>1. stopped' \in BOOLEAN
    BY <1>9 DEF ScanStopped
  <2>2. QED
    BY <1>9, <2>1, ReturnsType DEF ScanStopped, TypeOK
<1>10. ASSUME NEW last \in BOOLEAN, ScanAdd(last) PROVE TypeOK'
  <2>1. CASE last
    BY <1>10, <2>1, AddType, ReturnsType DEF ScanAdd, TypeOK
  <2>2. CASE ~last
    BY <1>10, <2>2, AddType DEF ScanAdd, TypeOK
  <2>3. QED
    BY <2>1, <2>2
<1>11. CASE ScanEnd
  BY <1>11, ReturnsType DEF ScanEnd, TypeOK
<1>12. CASE GtkCb
  <2>1. gtk_ev' \in BOOLEAN
    BY <1>12 DEF GtkCb
  <2>2. QED
    BY <1>12, <2>1 DEF GtkCb, TypeOK
<1>13. CASE GtkCbEnd
  BY <1>13 DEF GtkCbEnd, TypeOK
<1>14. CASE DelayedStart
  <2>1. PICK p \in Pids : StegdetectStart(p)
    BY <1>14 DEF DelayedStart
  <2>2. start_ev' \in BOOLEAN
    BY <1>14 DEF DelayedStart
  <2>3. QED
    BY <1>14, <2>1, <2>2, StartType DEF DelayedStart, TypeOK
<1>15. CASE ChldWriteChange
  <2>1. queue \in Seq(Entry) /\ queue # <<>> /\ Len(queue) \in Nat /\ 1 \in 1..Len(queue)
    BY <1>15 DEF ChldWriteChange, TypeOK
  <2>2. queue[1] \in Entry
    BY <2>1
  <2>3. [queue[1] EXCEPT !.change = FALSE] \in Entry
    BY <2>2 DEF Entry
  <2>4. queue' = [queue EXCEPT ![1] = [queue[1] EXCEPT !.change = FALSE]]
    BY <1>15 DEF ChldWriteChange
  <2>5. queue' \in Seq(Entry)
    BY <2>1, <2>3, <2>4
  <2>6. ceof' \in [Pids -> BOOLEAN]
    BY <1>15 DEF ChldWriteChange, TypeOK
  <2>7. stdin_open' \in BOOLEAN /\ ev_stdin' \in BOOLEAN
    BY <1>15 DEF ChldWriteChange
  <2>8. QED
    BY <1>15, <2>5, <2>6, <2>7 DEF ChldWriteChange, TypeOK
<1>16. CASE ChldWrite
  <2>1. queue' \in Seq(Entry) /\ Head(queue) \in Entry
    BY <1>16 DEF ChldWrite, TypeOK
  <2>2. cin' \in [Pids -> Seq(Entry)]
    <3>1. CASE sd_pid \in Pids
      <4>1. cin[sd_pid] \in Seq(Entry)
        BY <3>1 DEF TypeOK
      <4>2. Append(cin[sd_pid], Head(queue)) \in Seq(Entry)
        BY <2>1, <4>1
      <4>3. QED
        BY <1>16, <4>2 DEF ChldWrite, TypeOK
    <3>2. CASE sd_pid \notin Pids
      BY <1>16, <3>2 DEF ChldWrite, TypeOK
    <3>3. QED
      BY <3>1, <3>2
  <2>3. running' \in BOOLEAN
    <3>1. CASE UNCHANGED running
      BY <3>1 DEF TypeOK
    <3>2. CASE running' = FALSE
      BY <3>2
    <3>3. QED
      BY <1>16, <3>1, <3>2 DEF ChldWrite
  <2>4. lost' \subseteq Nat
    BY <1>16, <2>1 DEF ChldWrite, TypeOK, Entry
  <2>5. QED
    BY <1>16, <2>1, <2>2, <2>3, <2>4 DEF ChldWrite, TypeOK
<1>17. CASE ChldRead
  <2>1. PICK n \in 1..Len(cout[sd_pid]), cut \in 0..1 :
          /\ cout' = [cout EXCEPT ![sd_pid] = SubSeq(@, n + 1, Len(@))]
          /\ shown' = shown \cup {cout[sd_pid][k].id : k \in 1..(n - cut)}
    BY <1>17 DEF ChldRead
  <2>2. sd_pid \in Pids
    BY <1>17 DEF ChldRead, TypeOK, EventsFollowChild
  <2>3. cout[sd_pid] \in Seq(Entry)
    BY <2>2 DEF TypeOK
  <2>4. SubSeq(cout[sd_pid], n + 1, Len(cout[sd_pid])) \in Seq(Entry)
    BY <2>1, <2>3
  <2>5. cout' \in [Pids -> Seq(Entry)]
    BY <2>1, <2>2, <2>4 DEF TypeOK
  <2>6. \A k \in 1..(n - cut) : cout[sd_pid][k].id \in Nat
    <3>1. SUFFICES ASSUME NEW k \in 1..(n - cut) PROVE cout[sd_pid][k].id \in Nat
      OBVIOUS
    <3>2. Len(cout[sd_pid]) \in Nat /\ cut \in {0, 1}
      BY <2>3
    <3>3. k \in 1..Len(cout[sd_pid])
      BY <3>2
    <3>4. cout[sd_pid][k] \in Entry
      BY <2>3, <3>3
    <3>5. QED
      BY <3>4 DEF Entry
  <2>7. shown' \subseteq Nat
    BY <2>1, <2>6 DEF TypeOK
  <2>8. UNCHANGED <<running, phase, quit, adding, stopped, change, settings, added, opens, fails,
                    queue, flushed, lost, dialogs, depth, cancelled, sd_pid, stdin_open, ev_stdin, ev_read,
                    gtk_ev, start_ev, gotsig, cstatus, csettings, ceof, cintr, cin>>
    BY <1>17 DEF ChldRead
  <2>9. QED
    BY <2>5, <2>7, <2>8 DEF TypeOK
<1>18. CASE ChldReadError
  <2>1. fails' \in Nat
    BY <1>18 DEF ChldReadError, TypeOK
  <2>2. QED
    BY <1>18, <2>1, StopType DEF ChldReadError, TypeOK
<1>19. CASE SignalCb
  <2>1. gotsig' \in BOOLEAN
    BY <1>19 DEF SignalCb
  <2>2. QED
    BY <1>19, <2>1, StopType DEF SignalCb, TypeOK
<1>20. CASE DispatchReturns
  <2>1. running' \in BOOLEAN
    BY <1>20 DEF DispatchReturns
  <2>2. QED
    BY <1>20, <2>1, StopType DEF DispatchReturns, TypeOK
<1>21. ASSUME NEW p \in Pids, ChildAnalyse(p) PROVE TypeOK'
  <2>1. Head(cin[p]) \in Entry /\ Tail(cin[p]) \in Seq(Entry)
    BY <1>21 DEF ChildAnalyse, TypeOK
  <2>2. cin' \in [Pids -> Seq(Entry)]
    BY <1>21, <2>1 DEF ChildAnalyse, TypeOK
  <2>3. cout' \in [Pids -> Seq(Entry)]
    BY <1>21, <2>1 DEF ChildAnalyse, TypeOK
  <2>4. QED
    BY <1>21, <2>2, <2>3 DEF ChildAnalyse, TypeOK
<1>22. ASSUME NEW p \in Pids, ChildExit(p) PROVE TypeOK'
  BY <1>22 DEF ChildExit, TypeOK
<1>23. ASSUME NEW p \in Pids, ChildFail(p) PROVE TypeOK'
  BY <1>23 DEF ChildFail, TypeOK
<1>24. CASE ChldHandler
  BY <1>24 DEF ChldHandler, TypeOK
<1>25. CASE UNCHANGED vars
  BY <1>25 DEF vars, TypeOK
<1>26. QED
  BY <1>1, <1>2, <1>3, <1>4, <1>5, <1>6, <1>7, <1>8, <1>9, <1>10, <1>11, <1>12, <1>13, <1>14,
     <1>15, <1>16, <1>17, <1>18, <1>19, <1>20, <1>21, <1>22, <1>23, <1>24, <1>25
     DEF Next, Handlers, ScanStep, Callbacks, Children

-----------------------------------------------------------------------------
(* The events follow the child.                                            *)

LEMMA EventsNext == TypeOK /\ EventsFollowChild /\ [Next]_vars => EventsFollowChild'
<1> SUFFICES ASSUME TypeOK, EventsFollowChild, [Next]_vars PROVE EventsFollowChild'
  OBVIOUS
<1> USE PidsAssumption DEF EventsFollowChild, uiVars, listVars, connVars, timerVars, childVars, restVars
<1>1. ASSUME StegdetectStop PROVE EventsFollowChild'
  BY <1>1 DEF StegdetectStop
<1>2. ASSUME NEW p \in Pids, StegdetectStart(p), ev_stdin' => queue' # <<>>
      PROVE  EventsFollowChild'
  BY <1>2 DEF StegdetectStart
<1>3. ASSUME FilenameAdd PROVE EventsFollowChild'
  <2>1. queue' # <<>>
    <3>1. queue \in Seq(Entry) /\ NewEntry \in Entry /\ queue' = Append(queue, NewEntry)
      BY <1>3 DEF FilenameAdd, TypeOK, NewEntry, Entry
    <3>2. Len(queue') = Len(queue) + 1 /\ Len(queue) \in Nat
      BY <3>1
    <3>3. QED
      BY <3>2
  <2>2. CASE sd_pid = NoChild
    BY <1>2, <1>3, <2>1, <2>2 DEF FilenameAdd
  <2>3. CASE sd_pid # NoChild
    BY <1>3, <2>1, <2>3 DEF FilenameAdd
  <2>4. QED
    BY <2>2, <2>3
<1>4. ASSUME UNCHANGED <<connVars, queue>> PROVE EventsFollowChild'
  BY <1>4
<1>5. CASE StopClicked
  BY <1>1, <1>5 DEF StopClicked
<1>6. CASE SettingsChange
  BY <1>6 DEF SettingsChange
<1>7. CASE XstegDie
  BY <1>1, <1>7 DEF XstegDie
<1>8. CASE MenuOpen \/ DialogDismissed \/ OpenDir \/ OpenUnreadable
  BY <1>4, <1>8 DEF MenuOpen, DialogDismissed, OpenDir, OpenUnreadable
<1>9. CASE OpenFile
  BY <1>3, <1>9 DEF OpenFile
<1>10. CASE ScanStopped \/ ScanEnd
  BY <1>4, <1>10 DEF ScanStopped, ScanEnd
<1>11. ASSUME NEW last \in BOOLEAN, ScanAdd(last) PROVE EventsFollowChild'
  BY <1>3, <1>11 DEF ScanAdd
<1>12. CASE GtkCb \/ GtkCbEnd
  BY <1>4, <1>12 DEF GtkCb, GtkCbEnd
<1>13. CASE DelayedStart
  BY <1>2, <1>13 DEF DelayedStart
<1>14. CASE ChldWriteChange
  BY <1>14 DEF ChldWriteChange
<1>15. CASE ChldWrite
  <2>1. sd_pid # NoChild /\ ev_read' = ev_read /\ sd_pid' = sd_pid
    BY <1>15 DEF ChldWrite
  <2>2. ev_stdin' => queue' # <<>>
    BY <1>15 DEF ChldWrite
  <2>3. QED
    BY <2>1, <2>2
<1>16. CASE ChldRead
  BY <1>4, <1>16 DEF ChldRead
<1>17. CASE ChldReadError
  BY <1>1, <1>17 DEF ChldReadError
<1>18. CASE SignalCb
  BY <1>1, <1>18 DEF SignalCb
<1>19. CASE DispatchReturns
  BY <1>1, <1>19 DEF DispatchReturns
<1>20. CASE Children
  BY <1>4, <1>20 DEF Children, ChildAnalyse, ChildExit, ChildFail
<1>21. CASE ChldHandler
  BY <1>4, <1>21 DEF ChldHandler
<1>22. CASE UNCHANGED vars
  BY <1>4, <1>22 DEF vars
<1>23. QED
  BY <1>5, <1>6, <1>7, <1>8, <1>9, <1>10, <1>11, <1>12, <1>13, <1>14, <1>15, <1>16,
     <1>17, <1>18, <1>19, <1>20, <1>21, <1>22
     DEF Next, Handlers, ScanStep, Callbacks

LEMMA EventsInit == Init => EventsFollowChild
BY DEF Init, EventsFollowChild

\* Every variable keeps its type.
THEOREM TypeCorrect == Spec => []TypeOK
<1>1. Init => TypeOK /\ EventsFollowChild
  BY TypeInit, EventsInit
<1>2. TypeOK /\ EventsFollowChild /\ [Next]_vars => (TypeOK /\ EventsFollowChild)'
  BY TypeNext, EventsNext
<1>3. QED
  BY <1>1, <1>2, PTL DEF Spec

\* chld_write() and chld_read() are armed only on the open pipes of a current
\* child, and a current child is listened to.
THEOREM EventsSafe == Spec => []EventsFollowChild
<1>1. Init => TypeOK /\ EventsFollowChild
  BY TypeInit, EventsInit
<1>2. TypeOK /\ EventsFollowChild /\ [Next]_vars => (TypeOK /\ EventsFollowChild)'
  BY TypeNext, EventsNext
<1>3. QED
  BY <1>1, <1>2, PTL DEF Spec

-----------------------------------------------------------------------------
(* Files meet fresh settings.  FreshSettings alone is not inductive: that  *)
(* the head of the list may be written needs the flags behind it.          *)

LEMMA FreshStart ==
    ASSUME TypeOK, FreshSettings, NEW p \in Pids, StegdetectStart(p)
    PROVE  FreshSettings'
<1> SUFFICES ASSUME NEW q \in Pids
             PROVE /\ \A k \in 1..Len(cin'[q]) : cin'[q][k].settings <= csettings'[q]
                   /\ \A k \in 1..Len(cout'[q]) : cout'[q][k].settings <= csettings'[q]
  BY DEF FreshSettings
<1>1. CASE q = p
  <2>1. cin'[q] = <<>> /\ cout'[q] = <<>>
    BY <1>1 DEF StegdetectStart, TypeOK
  <2>2. QED
    BY <2>1
<1>2. CASE q # p
  <2>1. cin'[q] = cin[q] /\ cout'[q] = cout[q] /\ csettings'[q] = csettings[q]
    BY <1>2 DEF StegdetectStart, TypeOK
  <2>2. QED
    BY <2>1 DEF FreshSettings
<1>3. QED
  BY <1>1, <1>2

LEMMA FreshStop ==
    ASSUME TypeOK, FreshSettings, StegdetectStop
    PROVE  FreshSettings'
<1>1. CASE sd_pid = NoChild
  BY <1>1 DEF StegdetectStop, FreshSettings, childVars
<1>2. CASE sd_pid # NoChild
  <2> SUFFICES ASSUME NEW q \in Pids
               PROVE /\ \A k \in 1..Len(cin'[q]) : cin'[q][k].settings <= csettings'[q]
                     /\ \A k \in 1..Len(cout'[q]) : cout'[q][k].settings <= csettings'[q]
    BY DEF FreshSettings
  <2>1. cin'[q] = cin[q] /\ csettings'[q] = csettings[q]
    BY <1>2 DEF StegdetectStop
  <2>2. cout'[q] = <<>> \/ cout'[q] = cout[q]
    BY <1>2 DEF StegdetectStop, TypeOK
  <2>3. QED
    BY <2>1, <2>2 DEF FreshSettings
<1>3. QED
  BY <1>1, <1>2

\* A new child starts with the current settings, and no file in the list is newer.
LEMMA FlaggedStart ==
    ASSUME TypeOK, NEW p \in Pids, StegdetectStart(p), settings' = settings,
           queue' \in Seq(Entry), \A k \in 1..Len(queue') : queue'[k].settings <= settings
    PROVE  ChangesFlagged'
<1>1. sd_pid' = p /\ csettings'[p] = settings
  BY DEF StegdetectStart, TypeOK
<1>2. \A k \in 1..Len(queue') : queue'[k].settings \in Nat
  <2>1. \A k \in 1..Len(queue') : queue'[k] \in Entry
    OBVIOUS
  <2>2. QED
    BY <2>1 DEF Entry
<1>3. settings \in Nat
  BY DEF TypeOK
<1>4. QED
  BY <1>1, <1>2, <1>3 DEF ChangesFlagged

\* Without a child only the first part of ChangesFlagged says anything.
LEMMA FlaggedStop ==
    ASSUME StegdetectStop, settings' = settings, \A k \in 1..Len(queue') : queue'[k].settings <= settings
    PROVE  ChangesFlagged'
<1>1. sd_pid' = NoChild
  BY DEF StegdetectStop, connVars
<1>2. QED
  BY <1>1 DEF ChangesFlagged

LEMMA FreshAdd ==
    ASSUME TypeOK, FreshSettings, ChangesFlagged, FilenameAdd, settings' = settings
    PROVE  FreshSettings' /\ ChangesFlagged'
<1> DEFINE e == NewEntry
<1>1. /\ e \in Entry /\ e.settings = settings /\ e.change = change
      /\ queue \in Seq(Entry) /\ queue' = Append(queue, e)
  BY DEF TypeOK, NewEntry, Entry, FilenameAdd
<1> HIDE DEF e
<1>2. /\ Len(queue) \in Nat /\ Len(queue') = Len(queue) + 1
      /\ \A k \in 1..Len(queue) : queue'[k] = queue[k]
      /\ queue'[Len(queue) + 1] = e
      /\ queue' \in Seq(Entry)
  BY <1>1
<1>3. settings \in Nat /\ \A k \in 1..Len(queue) : queue[k].settings <= settings
  BY DEF TypeOK, ChangesFlagged
<1>4. \A k \in 1..Len(queue') : queue'[k].settings <= settings
  BY <1>1, <1>2, <1>3
<1>5. CASE sd_pid = NoChild
  <2>1. PICK p \in Pids : StegdetectStart(p)
    BY <1>5 DEF FilenameAdd
  <2>2. QED
    BY <1>2, <1>4, <2>1, FreshStart, FlaggedStart
<1>6. CASE sd_pid # NoChild
  <2>1. UNCHANGED <<sd_pid, stdin_open, cin, cout, csettings>>
    BY <1>6 DEF FilenameAdd, childVars
  <2>2. FreshSettings'
    BY <2>1 DEF FreshSettings
  <2>3. ASSUME stdin_open, NEW k \in 1..Len(queue'), queue'[k].settings > csettings[sd_pid]
        PROVE  \E j \in 1..k : queue'[j].change
    <3>1. CASE k \in 1..Len(queue)
      <4>1. PICK j \in 1..k : queue[j].change
        BY <1>2, <1>6, <2>3, <3>1 DEF ChangesFlagged
      <4>2. j \in 1..Len(queue)
        BY <1>2, <3>1
      <4>3. QED
        BY <1>2, <4>1, <4>2
    <3>2. CASE k = Len(queue) + 1
      <4>1. settings > csettings[sd_pid]
        BY <1>1, <1>2, <2>3, <3>2
      <4>2. CASE change
        BY <1>1, <1>2, <3>2, <4>2
      <4>3. CASE \E j \in 1..Len(queue) : queue[j].change
        BY <1>2, <3>2, <4>3
      <4>4. QED
        BY <1>6, <2>3, <4>1, <4>2, <4>3 DEF ChangesFlagged
    <3>3. QED
      BY <1>2, <3>1, <3>2
  <2>4. ASSUME stdin_open, settings > csettings[sd_pid]
        PROVE  \E j \in 1..Len(queue') : queue'[j].change
    <3>1. CASE change
      <4>1. queue'[Len(queue) + 1].change
        BY <1>1, <1>2, <3>1
      <4>2. QED
        BY <1>2, <4>1
    <3>2. CASE \E j \in 1..Len(queue) : queue[j].change
      <4>1. PICK j \in 1..Len(queue) : queue[j].change
        BY <3>2
      <4>2. QED
        BY <1>2, <4>1
    <3>3. QED
      BY <1>6, <2>4, <3>1, <3>2 DEF ChangesFlagged
  <2>5. QED
    BY <1>4, <2>1, <2>2, <2>3, <2>4 DEF ChangesFlagged
<1>7. QED
  BY <1>5, <1>6

\* A file that chld_write() takes off the list is not newer than the settings of
\* the child it is written to, and the files behind it keep their flag.
LEMMA FreshWrite ==
    ASSUME TypeOK, EventsFollowChild, FreshSettings, ChangesFlagged, ChldWrite
    PROVE  FreshSettings' /\ ChangesFlagged'
<1>1. /\ queue \in Seq(Entry) /\ queue # <<>> /\ queue' = Tail(queue) /\ ~queue[1].change
      /\ UNCHANGED <<sd_pid, stdin_open, settings, change, csettings, cout>>
  BY DEF ChldWrite, TypeOK, uiVars, restVars
<1>2. /\ Len(queue) \in Nat /\ Len(queue) > 0 /\ Len(queue') = Len(queue) - 1
      /\ \A k \in 1..Len(queue') : queue'[k] = queue[k + 1]
      /\ queue' \in Seq(Entry)
  BY <1>1
<1>3. sd_pid \in Pids /\ sd_pid # NoChild
  BY DEF ChldWrite, TypeOK, EventsFollowChild
<1>4. FreshSettings'
  <2>1. CASE ~(stdin_open /\ cstatus[sd_pid] = "run")
    BY <1>1, <2>1 DEF ChldWrite, FreshSettings
  <2>2. CASE stdin_open /\ cstatus[sd_pid] = "run"
    <3>1. queue[1] \in Entry /\ csettings[sd_pid] \in Nat
      BY <1>1, <1>2, <1>3 DEF TypeOK
    <3>2. queue[1].settings <= csettings[sd_pid]
      <4>1. queue[1].settings > csettings[sd_pid] => \E j \in 1..1 : queue[j].change
        BY <1>2, <1>3, <2>2 DEF ChangesFlagged
      <4>2. QED
        BY <1>1, <3>1, <4>1 DEF Entry
    <3>3. cin' = [cin EXCEPT ![sd_pid] = Append(cin[sd_pid], queue[1])]
      BY <2>2 DEF ChldWrite
    <3>4. SUFFICES ASSUME NEW q \in Pids, NEW k \in 1..Len(cin'[q])
                   PROVE  cin'[q][k].settings <= csettings[q]
      BY <1>1 DEF FreshSettings
    <3>5. CASE q # sd_pid
      <4>1. cin'[q] = cin[q]
        BY <3>3, <3>5 DEF TypeOK
      <4>2. QED
        BY <4>1 DEF FreshSettings
    <3>6. CASE q = sd_pid
      <4>1. cin'[q] = Append(cin[q], queue[1]) /\ cin[q] \in Seq(Entry)
        BY <3>3, <3>6 DEF TypeOK
      <4>2. CASE k \in 1..Len(cin[q])
        BY <4>1, <4>2 DEF FreshSettings
      <4>3. CASE k = Len(cin[q]) + 1
        BY <3>2, <3>6, <4>1, <4>3
      <4>4. QED
        BY <4>1, <4>2, <4>3
    <3>7. QED
      BY <3>5, <3>6
  <2>3. QED
    BY <2>1, <2>2
<1>5. \A k \in 1..Len(queue') : queue'[k].settings <= settings
  BY <1>2 DEF ChangesFlagged
<1>6. ASSUME stdin_open, NEW k \in 1..Len(queue'), queue'[k].settings > csettings[sd_pid]
      PROVE  \E j \in 1..k : queue'[j].change
  <2>1. PICK j \in 1..(k + 1) : queue[j].change
    BY <1>2, <1>3, <1>6 DEF ChangesFlagged
  <2>2. j # 1 /\ j - 1 \in 1..k /\ j - 1 \in 1..Len(queue')
    BY <1>1, <1>2, <2>1
  <2>3. queue'[j - 1] = queue[j]
    BY <1>2, <2>2
  <2>4. QED
    BY <2>1, <2>2, <2>3
<1>7. ASSUME stdin_open, settings > csettings[sd_pid], ~change
      PROVE  \E j \in 1..Len(queue') : queue'[j].change
  <2>1. PICK j \in 1..Len(queue) : queue[j].change
    BY <1>3, <1>7 DEF ChangesFlagged
  <2>2. j # 1 /\ j - 1 \in 1..Len(queue')
    BY <1>1, <1>2, <2>1
  <2>3. queue'[j - 1] = queue[j]
    BY <1>2, <2>2
  <2>4. QED
    BY <2>1, <2>2, <2>3
<1>8. QED
  BY <1>1, <1>4, <1>5, <1>6, <1>7 DEF ChangesFlagged

\* chld_read() takes a prefix of the results away.
LEMMA FreshRead ==
    ASSUME TypeOK, EventsFollowChild, FreshSettings, ChldRead
    PROVE  FreshSettings'
<1>1. sd_pid \in Pids /\ UNCHANGED <<cin, csettings>>
  BY DEF ChldRead, TypeOK, EventsFollowChild
<1>2. PICK n \in 1..Len(cout[sd_pid]) :
        cout' = [cout EXCEPT ![sd_pid] = SubSeq(cout[sd_pid], n + 1, Len(cout[sd_pid]))]
  BY DEF ChldRead
<1>3. SUFFICES ASSUME NEW q \in Pids, NEW k \in 1..Len(cout'[q])
               PROVE  cout'[q][k].settings <= csettings[q]
  BY <1>1 DEF FreshSettings
<1>4. CASE q # sd_pid
  <2>1. cout'[q] = cout[q]
    BY <1>2, <1>4 DEF TypeOK
  <2>2. QED
    BY <2>1 DEF FreshSettings
<1>5. CASE q = sd_pid
  <2>1. cout[q] \in Seq(Entry) /\ Len(cout[q]) \in Nat /\ n \in 1..Len(cout[q])
    BY <1>2, <1>5 DEF TypeOK
  <2>2. cout'[q] = SubSeq(cout[q], n + 1, Len(cout[q]))
    BY <1>2, <1>5 DEF TypeOK
  <2>3. n + k \in 1..Len(cout[q]) /\ cout'[q][k] = cout[q][n + k]
    BY <2>1, <2>2
  <2>4. QED
    BY <2>3 DEF FreshSettings
<1>6. QED
  BY <1>4, <1>5

\* The child moves a name from its input to its output.
LEMMA FreshAnalyse ==
    ASSUME TypeOK, FreshSettings, NEW p \in Pids, ChildAnalyse(p)
    PROVE  FreshSettings'
<1>1. /\ cin[p] \in Seq(Entry) /\ cin[p] # <<>> /\ cout[p] \in Seq(Entry)
      /\ cin' = [cin EXCEPT ![p] = Tail(cin[p])]
      /\ cout' = [cout EXCEPT ![p] = Append(cout[p], Head(cin[p]))]
      /\ UNCHANGED csettings
  BY DEF ChildAnalyse, TypeOK
<1>2. Len(cin[p]) \in Nat /\ Len(cin[p]) > 0 /\ Head(cin[p]) = cin[p][1] /\ 1 \in 1..Len(cin[p])
  BY <1>1
<1>3. cin[p][1].settings <= csettings[p]
  BY <1>2 DEF FreshSettings
<1>4. SUFFICES ASSUME NEW q \in Pids
               PROVE /\ \A k \in 1..Len(cin'[q]) : cin'[q][k].settings <= csettings[q]
                     /\ \A k \in 1..Len(cout'[q]) : cout'[q][k].settings <= csettings[q]
  BY <1>1 DEF FreshSettings
<1>5. CASE q # p
  <2>1. cin'[q] = cin[q] /\ cout'[q] = cout[q]
    BY <1>1, <1>5 DEF TypeOK
  <2>2. QED
    BY <2>1 DEF FreshSettings
<1>6. CASE q = p
  <2>1. cin'[q] = Tail(cin[p]) /\ cout'[q] = Append(cout[p], cin[p][1])
    BY <1>1, <1>2, <1>6 DEF TypeOK
  <2>2. ASSUME NEW k \in 1..Len(cin'[q]) PROVE cin'[q][k].settings <= csettings[q]
    <3>1. k + 1 \in 1..Len(cin[p]) /\ cin'[q][k] = cin[p][k + 1]
      BY <1>1, <2>1, TailAt
    <3>2. QED
      BY <1>6, <3>1 DEF FreshSettings
  <2>3. ASSUME NEW k \in 1..Len(cout'[q]) PROVE cout'[q][k].settings <= csettings[q]
    <3>1. CASE k \in 1..Len(cout[p])
      <4>1. cout[p] \in Seq(Entry)
        BY <1>1
      <4>2. Append(cout[p], cin[p][1])[k] = cout[p][k]
        BY <3>1, <4>1, AppendAt
      <4>3. cout'[q][k] = cout[p][k]
        BY <2>1, <4>2
      <4>4. QED
        BY <1>6, <3>1, <4>3 DEF FreshSettings
    <3>2. CASE k = Len(cout[p]) + 1
      <4>1. cout'[q][k] = cin[p][1]
        BY <1>1, <2>1, <3>2
      <4>2. QED
        BY <1>3, <1>6, <4>1
    <3>3. QED
      BY <1>1, <2>1, <3>1, <3>2
  <2>4. QED
    BY <2>2, <2>3
<1>7. QED
  BY <1>5, <1>6

LEMMA FreshNext ==
    ASSUME TypeOK, EventsFollowChild, FreshSettings, ChangesFlagged, [Next]_vars
    PROVE  FreshSettings' /\ ChangesFlagged'
<1> USE DEF uiVars, listVars, connVars, timerVars, childVars, restVars
<1>0. \A k \in 1..Len(queue) : queue[k].settings <= settings
  BY DEF ChangesFlagged
<1>1. ASSUME UNCHANGED <<queue, settings, change, sd_pid, stdin_open, csettings>>
      PROVE  ChangesFlagged'
  BY <1>1 DEF ChangesFlagged
<1>2. ASSUME UNCHANGED <<cin, cout, csettings>> PROVE FreshSettings'
  BY <1>2 DEF FreshSettings
<1>3. ASSUME StegdetectStop, UNCHANGED <<queue, settings>> PROVE FreshSettings' /\ ChangesFlagged'
  BY <1>0, <1>3, FreshStop, FlaggedStop
<1>4. CASE StopClicked
  <2>1. queue' = <<>> /\ StegdetectStop /\ settings' = settings
    BY <1>4 DEF StopClicked
  <2>2. \A k \in 1..Len(queue') : queue'[k].settings <= settings
    BY <2>1
  <2>3. QED
    BY <2>1, <2>2, FreshStop, FlaggedStop
<1>5. CASE SettingsChange
  <2>1. /\ settings' = settings + 1 /\ settings \in Nat
        /\ UNCHANGED <<queue, sd_pid, stdin_open, cin, cout, csettings>>
    BY <1>5 DEF SettingsChange, TypeOK
  <2>2. sd_pid # NoChild => change'
    BY <1>5 DEF SettingsChange
  <2>3. \A k \in 1..Len(queue') : queue'[k].settings <= settings'
    <3>1. \A k \in 1..Len(queue) : queue[k] \in Entry
      BY DEF TypeOK
    <3>2. QED
      BY <1>0, <2>1, <3>1 DEF Entry
  <2>4. ChangesFlagged'
    BY <2>1, <2>2, <2>3 DEF ChangesFlagged
  <2>5. QED
    BY <1>2, <2>1, <2>4
<1>6. CASE XstegDie
  BY <1>3, <1>6 DEF XstegDie
<1>7. CASE MenuOpen \/ DialogDismissed \/ OpenDir \/ OpenUnreadable
  BY <1>1, <1>2, <1>7 DEF MenuOpen, DialogDismissed, OpenDir, OpenUnreadable
<1>8. CASE OpenFile
  BY <1>8, FreshAdd DEF OpenFile
<1>9. CASE ScanStopped \/ ScanEnd
  BY <1>1, <1>2, <1>9 DEF ScanStopped, ScanEnd
<1>10. ASSUME NEW last \in BOOLEAN, ScanAdd(last) PROVE FreshSettings' /\ ChangesFlagged'
  BY <1>10, FreshAdd DEF ScanAdd
<1>11. CASE GtkCb \/ GtkCbEnd
  BY <1>1, <1>2, <1>11 DEF GtkCb, GtkCbEnd
<1>12. CASE DelayedStart
  <2>1. PICK p \in Pids : StegdetectStart(p)
    BY <1>12 DEF DelayedStart
  <2>2. UNCHANGED <<queue, settings>> /\ queue' \in Seq(Entry)
    BY <1>12 DEF DelayedStart, TypeOK
  <2>3. \A k \in 1..Len(queue') : queue'[k].settings <= settings
    BY <1>0, <2>2
  <2>4. QED
    BY <2>1, <2>2, <2>3, FreshStart, FlaggedStart
<1>13. CASE ChldWriteChange
  <2>1. /\ queue \in Seq(Entry) /\ queue # <<>>
        /\ queue' = [queue EXCEPT ![1] = [queue[1] EXCEPT !.change = FALSE]]
        /\ ~stdin_open' /\ UNCHANGED <<settings, cin, cout, csettings>>
    BY <1>13 DEF ChldWriteChange, TypeOK
  <2>2. Len(queue') = Len(queue) /\ \A k \in 1..Len(queue) : queue[k] \in Entry
    BY <2>1
  <2>3. \A k \in 1..Len(queue') : queue'[k].settings = queue[k].settings
    BY <2>1, <2>2 DEF Entry
  <2>4. \A k \in 1..Len(queue') : queue'[k].settings <= settings'
    BY <1>0, <2>1, <2>2, <2>3
  <2>5. QED
    BY <1>2, <2>1, <2>4 DEF ChangesFlagged
<1>14. CASE ChldWrite
  BY <1>14, FreshWrite
<1>15. CASE ChldRead
  BY <1>1, <1>15, FreshRead DEF ChldRead
<1>16. CASE ChldReadError
  BY <1>3, <1>16 DEF ChldReadError
<1>17. CASE SignalCb
  BY <1>3, <1>17 DEF SignalCb
<1>18. CASE DispatchReturns
  BY <1>3, <1>18 DEF DispatchReturns
<1>19. ASSUME NEW p \in Pids, ChildAnalyse(p) PROVE FreshSettings' /\ ChangesFlagged'
  BY <1>1, <1>19, FreshAnalyse DEF ChildAnalyse
<1>20. ASSUME NEW p \in Pids, ChildExit(p) \/ ChildFail(p) PROVE FreshSettings' /\ ChangesFlagged'
  BY <1>1, <1>2, <1>20 DEF ChildExit, ChildFail
<1>21. CASE ChldHandler
  BY <1>1, <1>2, <1>21 DEF ChldHandler
<1>22. CASE UNCHANGED vars
  BY <1>1, <1>2, <1>22 DEF vars
<1>23. QED
  BY <1>4, <1>5, <1>6, <1>7, <1>8, <1>9, <1>10, <1>11, <1>12, <1>13, <1>14, <1>15, <1>16,
     <1>17, <1>18, <1>19, <1>20, <1>21, <1>22
     DEF Next, Handlers, ScanStep, Callbacks, Children

-----------------------------------------------------------------------------
(* The writer is woken up.                                                 *)

LEMMA WokenStop ==
    ASSUME TypeOK, WriterWoken, StegdetectStop, gotsig' = gotsig, start_ev' = start_ev,
           running' => running, queue' = queue \/ queue' = <<>>
    PROVE  WriterWoken'
<1>1. sd_pid' = NoChild
  BY DEF StegdetectStop, connVars
<1>2. CASE sd_pid = NoChild
  BY <1>1, <1>2 DEF WriterWoken, SignalComing, StegdetectStop, connVars, childVars
<1>3. CASE sd_pid # NoChild
  <2>1. sd_pid \in Pids
    BY <1>3 DEF TypeOK
  <2>2. cstatus' = cstatus /\ cintr'[sd_pid]
    BY <1>3, <2>1 DEF StegdetectStop, TypeOK
  <2>3. cstatus[sd_pid] \in {"none", "run", "zombie"}
    BY <2>1 DEF TypeOK
  <2>4. SignalComing'
    BY <1>3, <2>1, <2>2, <2>3 DEF WriterWoken, SignalComing
  <2>5. QED
    BY <1>1, <2>4 DEF WriterWoken
<1>4. QED
  BY <1>2, <1>3

\* A new child is alive and its pipe open; the callers arm the writer.
LEMMA WokenStart ==
    ASSUME TypeOK, NEW p \in Pids, StegdetectStart(p), queue' # <<>> => ev_stdin'
    PROVE  WriterWoken'
<1>1. sd_pid' = p /\ sd_pid' # NoChild /\ stdin_open' /\ cstatus'[p] = "run"
  BY PidsAssumption DEF StegdetectStart, TypeOK
<1>2. QED
  BY <1>1 DEF WriterWoken

LEMMA WokenAdd ==
    ASSUME TypeOK, WriterWoken, FilenameAdd, gotsig' = gotsig
    PROVE  WriterWoken'
<1>1. ev_stdin'
  BY DEF FilenameAdd
<1>2. CASE sd_pid = NoChild
  <2>1. PICK p \in Pids : StegdetectStart(p)
    BY <1>2 DEF FilenameAdd
  <2>2. QED
    BY <1>1, <2>1, WokenStart
<1>3. CASE sd_pid # NoChild
  <2>1. UNCHANGED <<sd_pid, stdin_open, cstatus, ceof>>
    BY <1>3 DEF FilenameAdd, childVars
  <2>2. QED
    BY <1>1, <1>3, <2>1 DEF WriterWoken
<1>4. QED
  BY <1>2, <1>3

LEMMA WokenNext ==
    ASSUME TypeOK, EventsFollowChild, WriterWoken, [Next]_vars
    PROVE  WriterWoken'
<1> USE DEF uiVars, listVars, connVars, timerVars, childVars, restVars
<1>1. ASSUME UNCHANGED <<running, queue, connVars, start_ev, gotsig, cstatus, ceof, cintr>>
      PROVE  WriterWoken'
  BY <1>1 DEF WriterWoken, SignalComing
<1>2. CASE StopClicked
  BY <1>2, WokenStop DEF StopClicked
<1>3. CASE SettingsChange \/ MenuOpen \/ DialogDismissed \/ OpenDir \/ OpenUnreadable
  BY <1>1, <1>3 DEF SettingsChange, MenuOpen, DialogDismissed, OpenDir, OpenUnreadable
<1>4. CASE XstegDie
  BY <1>4, WokenStop DEF XstegDie
<1>5. CASE OpenFile
  BY <1>5, WokenAdd DEF OpenFile
<1>6. CASE ScanStopped \/ ScanEnd
  BY <1>1, <1>6 DEF ScanStopped, ScanEnd
<1>7. ASSUME NEW last \in BOOLEAN, ScanAdd(last) PROVE WriterWoken'
  BY <1>7, WokenAdd DEF ScanAdd
<1>8. CASE GtkCb \/ GtkCbEnd
  BY <1>1, <1>8 DEF GtkCb, GtkCbEnd
<1>9. CASE DelayedStart
  <2>1. PICK p \in Pids : StegdetectStart(p)
    BY <1>9 DEF DelayedStart
  <2>2. queue' # <<>> => ev_stdin'
    BY <1>9 DEF DelayedStart
  <2>3. QED
    BY <2>1, <2>2, WokenStart
<1>10. CASE ChldWriteChange
  <2>1. sd_pid \in Pids /\ sd_pid # NoChild
    BY <1>10 DEF ChldWriteChange, TypeOK, EventsFollowChild
  <2>2. ~stdin_open' /\ ceof'[sd_pid] /\ UNCHANGED <<sd_pid, cstatus, gotsig>>
    BY <1>10, <2>1 DEF ChldWriteChange, TypeOK
  <2>3. QED
    BY <2>1, <2>2 DEF WriterWoken
<1>11. CASE ChldWrite
  <2>1. sd_pid # NoChild /\ UNCHANGED <<sd_pid, stdin_open, cstatus, ceof, gotsig>>
    BY <1>11 DEF ChldWrite, EventsFollowChild
  <2>2. queue' # <<>> => ev_stdin'
    BY <1>11 DEF ChldWrite
  <2>3. QED
    BY <2>1, <2>2 DEF WriterWoken
<1>12. CASE ChldRead
  BY <1>1, <1>12 DEF ChldRead
<1>13. CASE ChldReadError
  BY <1>13, WokenStop DEF ChldReadError
<1>14. CASE SignalCb
  <2>1. sd_pid' = NoChild
    BY <1>14 DEF SignalCb, StegdetectStop
  <2>2. queue' # <<>> => start_ev'
    BY <1>14 DEF SignalCb
  <2>3. QED
    BY <2>1, <2>2 DEF WriterWoken
<1>15. CASE DispatchReturns
  <2>1. sd_pid' = NoChild /\ ~running'
    BY <1>15 DEF DispatchReturns, StegdetectStop
  <2>2. QED
    BY <2>1 DEF WriterWoken
<1>16. ASSUME NEW p \in Pids, ChildAnalyse(p) PROVE WriterWoken'
  BY <1>1, <1>16 DEF ChildAnalyse
<1>17. ASSUME NEW p \in Pids, ChildExit(p) \/ ChildFail(p) PROVE WriterWoken'
  <2>1. /\ cstatus' = [cstatus EXCEPT ![p] = "zombie"] /\ cstatus \in [Pids -> {"none", "run", "zombie"}]
        /\ UNCHANGED <<running, queue, connVars, start_ev, gotsig, ceof, cintr>>
    BY <1>17 DEF ChildExit, ChildFail, TypeOK
  <2>2. cstatus'[p] = "zombie" /\ SignalComing'
    BY <2>1 DEF SignalComing
  <2>3. sd_pid # NoChild => (cstatus'[sd_pid] = "none" => gotsig')
    BY <2>1 DEF WriterWoken, TypeOK
  <2>4. QED
    BY <2>1, <2>2, <2>3 DEF WriterWoken
<1>18. CASE ChldHandler
  <2>1. gotsig' /\ SignalComing'
    BY <1>18 DEF ChldHandler, SignalComing
  <2>2. QED
    BY <1>18, <2>1 DEF ChldHandler, WriterWoken
<1>19. CASE UNCHANGED vars
  BY <1>1, <1>19 DEF vars
<1>20. QED
  BY <1>2, <1>3, <1>4, <1>5, <1>6, <1>7, <1>8, <1>9, <1>10, <1>11, <1>12, <1>13, <1>14,
     <1>15, <1>16, <1>17, <1>18, <1>19
     DEF Next, Handlers, ScanStep, Callbacks, Children

-----------------------------------------------------------------------------
(* The inductive invariant and what follows from it.                       *)

LEMMA IInvInit == Init => IInv
<1> SUFFICES ASSUME Init PROVE IInv
  OBVIOUS
<1>1. queue = <<>> /\ sd_pid = NoChild
  BY DEF Init
<1>2. \A p \in Pids : cin[p] = <<>> /\ cout[p] = <<>>
  BY DEF Init
<1>3. FreshSettings
  BY <1>2 DEF FreshSettings
<1>4. ChangesFlagged
  BY <1>1 DEF ChangesFlagged
<1>5. WriterWoken
  BY <1>1 DEF WriterWoken
<1>6. QED
  BY <1>3, <1>4, <1>5, TypeInit, EventsInit DEF IInv

LEMMA IInvNext == IInv /\ [Next]_vars => IInv'
BY TypeNext, EventsNext, FreshNext, WokenNext DEF IInv

\* IInv, which TLC checks on a small instance, is an invariant of every instance.
THEOREM Invariant == Spec => []IInv
BY IInvInit, IInvNext, PTL DEF Spec

\* A file is never given to a child with settings older than those in force when
\* the file was added: the change flag of chld_write() is enough for that.
THEOREM FreshSafe == Spec => []FreshSettings
<1>1. IInv => FreshSettings
  BY DEF IInv
<1>2. QED
  BY <1>1, Invariant, PTL

\* Files left in the list always have something that will come back for them.
THEOREM NoFileForgotten == Spec => []NoLostWakeup
<1>1. IInv => NoLostWakeup
  <2> SUFFICES ASSUME IInv, running, queue # <<>>
               PROVE  (ev_stdin /\ stdin_open) \/ start_ev \/ SignalComing
    BY DEF NoLostWakeup
  <2>1. CASE sd_pid = NoChild
    BY <2>1 DEF IInv, WriterWoken
  <2>2. CASE sd_pid # NoChild /\ stdin_open
    BY <2>2 DEF IInv, WriterWoken
  <2>3. CASE sd_pid # NoChild /\ ~stdin_open
    <3>1. sd_pid \in Pids /\ cstatus[sd_pid] \in {"none", "run", "zombie"}
      BY <2>3 DEF IInv, TypeOK
    <3>2. ceof[sd_pid] /\ (cstatus[sd_pid] = "none" => gotsig)
      BY <2>3 DEF IInv, WriterWoken
    <3>3. QED
      BY <3>1, <3>2 DEF SignalComing
  <2>4. QED
    BY <2>1, <2>2, <2>3
<1>2. QED
  BY <1>1, Invariant, PTL

-----------------------------------------------------------------------------
(* Why a name may be lost.                                                 *)

LEMMA CauseInit == Init => CauseKnown
<1> SUFFICES ASSUME Init PROVE CauseKnown
  OBVIOUS
<1>1. ~change /\ queue = <<>> /\ sd_pid = NoChild
  BY DEF Init
<1>2. QED
  BY <1>1 DEF CauseKnown

\* A stop leaves no child to say anything of.
LEMMA CauseStop ==
    ASSUME CauseKnown, StegdetectStop, UNCHANGED <<settings, change>>,
           queue' = queue \/ queue' = <<>>
    PROVE  CauseKnown'
<1>1. sd_pid' = NoChild
  BY DEF StegdetectStop, connVars
<1>2. QED
  BY <1>1 DEF CauseKnown

\* A new child is told nothing yet.
LEMMA CauseStart ==
    ASSUME TypeOK, NEW p \in Pids, StegdetectStart(p),
           settings = 0 => ~change' /\ \A k \in 1..Len(queue') : ~queue'[k].change,
           settings' = settings
    PROVE  CauseKnown'
<1>1. sd_pid' = p /\ stdin_open' /\ ~cintr'[p] /\ ~ceof'[p] /\ cstatus'[p] = "run"
  BY DEF StegdetectStart, TypeOK
<1>2. QED
  BY <1>1 DEF CauseKnown

LEMMA CauseAdd ==
    ASSUME TypeOK, CauseKnown, FilenameAdd, UNCHANGED <<settings, fails>>
    PROVE  CauseKnown'
<1>1. settings = 0 => ~change' /\ \A k \in 1..Len(queue') : ~queue'[k].change
  <2> SUFFICES ASSUME settings = 0, NEW k \in 1..Len(queue') PROVE ~queue'[k].change
    BY DEF FilenameAdd
  <2>1. queue' = Append(queue, NewEntry) /\ queue \in Seq(Entry) /\ ~NewEntry.change
    BY DEF FilenameAdd, TypeOK, NewEntry, CauseKnown
  <2>2. CASE k \in 1..Len(queue)
    <3>1. queue'[k] = queue[k]
      BY <2>1, <2>2
    <3>2. QED
      BY <2>2, <3>1 DEF CauseKnown
  <2>3. CASE k = Len(queue) + 1
    BY <2>1, <2>3
  <2>4. QED
    BY <2>1, <2>2, <2>3
<1>2. CASE sd_pid = NoChild
  <2>1. PICK p \in Pids : StegdetectStart(p)
    BY <1>2 DEF FilenameAdd
  <2>2. QED
    BY <1>1, <2>1, CauseStart
<1>3. CASE sd_pid # NoChild
  <2>1. UNCHANGED <<sd_pid, stdin_open, cstatus, ceof, cintr>>
    BY <1>3 DEF FilenameAdd, childVars
  <2>2. QED
    BY <1>1, <1>3, <2>1 DEF CauseKnown
<1>4. QED
  BY <1>2, <1>3

LEMMA CauseNext ==
    ASSUME TypeOK, EventsFollowChild, CauseKnown, [Next]_vars
    PROVE  CauseKnown'
<1> USE DEF uiVars, listVars, connVars, timerVars, childVars, restVars
<1>1. ASSUME UNCHANGED <<queue, change, settings, fails, connVars, cstatus, ceof, cintr>>
      PROVE  CauseKnown'
  BY <1>1 DEF CauseKnown
<1>2. CASE StopClicked
  BY <1>2, CauseStop DEF StopClicked
<1>3. CASE SettingsChange
  <2>1. settings' > 0 /\ settings' # 0 /\ UNCHANGED <<fails, connVars, cstatus, ceof, cintr>>
    BY <1>3 DEF SettingsChange, TypeOK
  <2>2. QED
    BY <2>1 DEF CauseKnown
<1>4. CASE MenuOpen \/ DialogDismissed \/ OpenDir \/ OpenUnreadable
  BY <1>1, <1>4 DEF MenuOpen, DialogDismissed, OpenDir, OpenUnreadable
<1>5. CASE XstegDie
  BY <1>5, CauseStop DEF XstegDie
<1>6. CASE OpenFile
  BY <1>6, CauseAdd DEF OpenFile
<1>7. CASE ScanStopped \/ ScanEnd
  BY <1>1, <1>7 DEF ScanStopped, ScanEnd
<1>8. ASSUME NEW last \in BOOLEAN, ScanAdd(last) PROVE CauseKnown'
  BY <1>8, CauseAdd DEF ScanAdd
<1>9. CASE GtkCb \/ GtkCbEnd
  BY <1>1, <1>9 DEF GtkCb, GtkCbEnd
<1>10. CASE DelayedStart
  <2>1. PICK p \in Pids : StegdetectStart(p)
    BY <1>10 DEF DelayedStart
  <2>2. UNCHANGED <<queue, change, settings>>
    BY <1>10 DEF DelayedStart
  <2>3. QED
    BY <2>1, <2>2, CauseStart DEF CauseKnown
<1>11. CASE ChldWriteChange
  <2>1. 1 \in 1..Len(queue) /\ queue[1].change
    BY <1>11 DEF ChldWriteChange, TypeOK
  <2>2. settings # 0 /\ settings > 0
    BY <2>1 DEF CauseKnown, TypeOK
  <2>3. ~stdin_open' /\ UNCHANGED <<settings, sd_pid, cintr>>
    BY <1>11 DEF ChldWriteChange
  <2>4. QED
    BY <2>2, <2>3 DEF CauseKnown
<1>12. CASE ChldWrite
  <2>1. queue' = Tail(queue) /\ queue # <<>> /\ queue \in Seq(Entry)
    BY <1>12 DEF ChldWrite, TypeOK
  <2>2. \A k \in 1..Len(queue') : k + 1 \in 1..Len(queue) /\ queue'[k] = queue[k + 1]
    BY <2>1
  <2>3. UNCHANGED <<change, settings, fails, sd_pid, stdin_open, cstatus, ceof, cintr>>
    BY <1>12 DEF ChldWrite
  <2>4. QED
    BY <2>2, <2>3 DEF CauseKnown
<1>13. CASE ChldRead
  BY <1>1, <1>13 DEF ChldRead
<1>14. CASE ChldReadError
  BY <1>14, CauseStop DEF ChldReadError
<1>15. CASE SignalCb
  BY <1>15, CauseStop DEF SignalCb
<1>16. CASE DispatchReturns
  BY <1>16, CauseStop DEF DispatchReturns
<1>17. ASSUME NEW p \in Pids, ChildAnalyse(p) PROVE CauseKnown'
  BY <1>1, <1>17 DEF ChildAnalyse
<1>18. ASSUME NEW p \in Pids, ChildExit(p) PROVE CauseKnown'
  <2>0. sd_pid # NoChild => sd_pid \in Pids
    BY DEF TypeOK
  <2>1. /\ cstatus' = [cstatus EXCEPT ![p] = "zombie"] /\ (cintr[p] \/ ceof[p])
        /\ UNCHANGED <<queue, change, settings, fails, connVars, ceof, cintr>>
    BY <1>18 DEF ChildExit
  <2>2. sd_pid # NoChild /\ stdin_open => p # sd_pid
    BY <2>1 DEF CauseKnown
  <2>3. sd_pid # NoChild /\ stdin_open => cstatus'[sd_pid] = cstatus[sd_pid]
    BY <2>1, <2>2, <2>0 DEF TypeOK
  <2>4. QED
    BY <2>1, <2>3 DEF CauseKnown
<1>19. ASSUME NEW p \in Pids, ChildFail(p) PROVE CauseKnown'
  <2>1. fails' # 0 /\ UNCHANGED <<queue, change, settings, connVars, ceof, cintr>>
    BY <1>19 DEF ChildFail, TypeOK
  <2>2. QED
    BY <2>1 DEF CauseKnown
<1>20. CASE ChldHandler
  <2>1. /\ \A p \in Pids : cstatus[p] = "run" => cstatus'[p] = "run"
        /\ UNCHANGED <<queue, change, settings, fails, connVars, ceof, cintr>>
    BY <1>20 DEF ChldHandler
  <2>2. sd_pid # NoChild => sd_pid \in Pids
    BY DEF TypeOK
  <2>3. QED
    BY <2>1, <2>2 DEF CauseKnown
<1>21. CASE UNCHANGED vars
  BY <1>1, <1>21 DEF vars
<1>22. QED
  BY <1>2, <1>3, <1>4, <1>5, <1>6, <1>7, <1>8, <1>9, <1>10, <1>11, <1>12, <1>13, <1>14,
     <1>15, <1>16, <1>17, <1>18, <1>19, <1>20, <1>21
     DEF Next, Handlers, ScanStep, Callbacks, Children

\* chld_write() alone loses names.
LEMMA OnlyWriteLoses ==
    ASSUME [Next]_vars, lost' # lost
    PROVE  ChldWrite
<1> USE DEF uiVars, listVars, connVars, timerVars, childVars, restVars
<1>1. ~(StopClicked \/ SettingsChange \/ XstegDie \/ MenuOpen \/ DialogDismissed \/ OpenDir \/ OpenUnreadable)
  BY DEF StopClicked, SettingsChange, XstegDie, MenuOpen, DialogDismissed, OpenDir, OpenUnreadable
<1>2. ~(OpenFile \/ ScanStopped \/ ScanAdd(TRUE) \/ ScanAdd(FALSE) \/ ScanEnd)
  BY DEF OpenFile, ScanStopped, ScanAdd, ScanEnd, FilenameAdd
<1>3. ~(GtkCb \/ GtkCbEnd \/ DelayedStart \/ ChldWriteChange)
  BY DEF GtkCb, GtkCbEnd, DelayedStart, ChldWriteChange
<1>4. ~(ChldRead \/ ChldReadError \/ SignalCb \/ DispatchReturns \/ ChldHandler)
  BY DEF ChldRead, ChldReadError, SignalCb, DispatchReturns, ChldHandler
<1>5. ~Children
  BY DEF Children, ChildAnalyse, ChildExit, ChildFail
<1>6. ~UNCHANGED vars
  BY DEF vars
<1>7. QED
  BY <1>1, <1>2, <1>3, <1>4, <1>5, <1>6 DEF Next, Handlers, ScanStep, Callbacks

\* The unchecked write() of chld_write() fails on an open pipe only after a child
\* failed, and on a closed one only after the settings were changed.
THEOREM LossesExplained == Spec => LossHasCause
<1>1. TypeOK /\ EventsFollowChild /\ CauseKnown /\ [Next]_vars
        => [lost' # lost => IF stdin_open THEN fails > 0 ELSE settings > 0]_vars
  <2> SUFFICES ASSUME TypeOK, EventsFollowChild, CauseKnown, [Next]_vars, lost' # lost
               PROVE  IF stdin_open THEN fails > 0 ELSE settings > 0
    OBVIOUS
  <2>1. ChldWrite
    BY OnlyWriteLoses
  <2>2. sd_pid # NoChild
    BY <2>1 DEF ChldWrite, EventsFollowChild
  <2>3. CASE stdin_open
    <3>1. cstatus[sd_pid] # "run"
      BY <2>1, <2>3 DEF ChldWrite
    <3>2. fails # 0
      BY <2>2, <2>3, <3>1 DEF CauseKnown
    <3>3. QED
      BY <2>3, <3>2 DEF TypeOK
  <2>4. CASE ~stdin_open
    BY <2>2, <2>4 DEF CauseKnown
  <2>5. QED
    BY <2>3, <2>4
<1>2. TypeOK /\ EventsFollowChild /\ CauseKnown /\ [Next]_vars => CauseKnown'
  BY CauseNext
<1>3. QED
  BY <1>1, <1>2, CauseInit, TypeInit, TypeNext, EventsInit, EventsNext, PTL
     DEF Spec, LossHasCause

-----------------------------------------------------------------------------
(* The order of the files, and that each is in one place.                  *)

\* A name is that of one of the places of a sequence.
LEMMA NameAt ==
    ASSUME NEW s, NEW i
    PROVE  i \in Names(s) <=> \E k \in 1..Len(s) : s[k].id = i
BY DEF Names

\* The names of a sequence when one comes, and when the head goes.
LEMMA NamesAppend ==
    ASSUME NEW s \in Seq(Entry), NEW e \in Entry
    PROVE  Names(Append(s, e)) = Names(s) \cup {e.id}
<1> DEFINE t == Append(s, e)
<1>1. /\ Len(s) \in Nat /\ Len(t) = Len(s) + 1 /\ t[Len(s) + 1] = e
      /\ \A k \in 1..Len(s) : t[k] = s[k]
  OBVIOUS
<1> HIDE DEF t
<1>2. ASSUME NEW i \in Names(t) PROVE i \in Names(s) \cup {e.id}
  <2>1. PICK k \in 1..Len(t) : t[k].id = i
    BY NameAt
  <2>2. k \in 1..Len(s) \/ k = Len(s) + 1
    BY <1>1
  <2> QED BY <1>1, <2>1, <2>2 DEF Names
<1>3. Names(s) \subseteq Names(t)
  BY <1>1 DEF Names
<1>4. e.id \in Names(t)
  <2>1. Len(s) + 1 \in 1..Len(t)
    BY <1>1
  <2> QED BY <1>1, <2>1 DEF Names
<1> QED BY <1>2, <1>3, <1>4 DEF t

LEMMA NamesTail ==
    ASSUME NEW s \in Seq(Entry), s # <<>>
    PROVE  /\ Names(Tail(s)) \subseteq Names(s) /\ Head(s).id \in Names(s)
           /\ Head(s) = s[1] /\ Head(s) \in Entry
           /\ Ascends(s) => Head(s).id \notin Names(Tail(s))
<1> DEFINE t == Tail(s)
<1>1. /\ t \in Seq(Entry) /\ Len(t) \in Nat /\ Len(s) = Len(t) + 1 /\ Head(s) = s[1] /\ s[1] \in Entry
      /\ \A k \in 1..Len(t) : k + 1 \in 1..Len(s) /\ t[k] = s[k + 1]
  OBVIOUS
<1> HIDE DEF t
<1>2. Names(t) \subseteq Names(s)
  BY <1>1 DEF Names
<1>3. 1 \in 1..Len(s)
  BY <1>1
<1>4. ASSUME Ascends(s), s[1].id \in Names(t) PROVE FALSE
  <2>1. PICK k \in 1..Len(t) : t[k].id = s[1].id
    BY <1>4, NameAt
  <2>2. k + 1 \in 1..Len(s) /\ 1 < k + 1 /\ s[k + 1].id = s[1].id
    BY <1>1, <2>1
  <2>3. s[1].id < s[k + 1].id
    BY <1>3, <1>4, <2>2 DEF Ascends
  <2>4. s[1].id \in Nat
    BY <1>1 DEF Entry
  <2> QED BY <2>2, <2>3, <2>4
<1> QED BY <1>1, <1>2, <1>3, <1>4 DEF Names, t

\* Ascending is kept when a later name comes and when the head goes.
LEMMA AscendsAppend ==
    ASSUME NEW s \in Seq(Entry), NEW e \in Entry, Ascends(s),
           \A k \in 1..Len(s) : s[k].id < e.id
    PROVE  Ascends(Append(s, e))
<1> DEFINE t == Append(s, e)
<1>1. /\ Len(s) \in Nat /\ Len(t) = Len(s) + 1 /\ t[Len(s) + 1] = e
      /\ \A k \in 1..Len(s) : t[k] = s[k]
  OBVIOUS
<1> HIDE DEF t
<1>2. ASSUME NEW j \in 1..Len(t), NEW k \in 1..Len(t), j < k PROVE t[j].id < t[k].id
  <2>1. j \in 1..Len(s) /\ (k \in 1..Len(s) \/ k = Len(s) + 1)
    BY <1>1, <1>2
  <2> QED BY <1>1, <1>2, <2>1 DEF Ascends
<1> QED BY <1>2 DEF Ascends, t

LEMMA AscendsTail ==
    ASSUME NEW s \in Seq(Entry), s # <<>>, Ascends(s)
    PROVE  Ascends(Tail(s)) /\ \A k \in 1..Len(Tail(s)) : Head(s).id < Tail(s)[k].id
<1> DEFINE t == Tail(s)
<1>1. /\ Len(t) \in Nat /\ Len(s) = Len(t) + 1 /\ Head(s) = s[1]
      /\ \A k \in 1..Len(t) : k + 1 \in 1..Len(s) /\ t[k] = s[k + 1]
  OBVIOUS
<1> HIDE DEF t
<1>2. ASSUME NEW j \in 1..Len(t), NEW k \in 1..Len(t), j < k PROVE t[j].id < t[k].id
  <2>1. j + 1 < k + 1
    BY <1>2
  <2> QED BY <1>1, <2>1 DEF Ascends
<1>3. ASSUME NEW k \in 1..Len(t) PROVE s[1].id < t[k].id
  <2>1. 1 \in 1..Len(s) /\ 1 < k + 1
    BY <1>1
  <2> QED BY <1>1, <2>1 DEF Ascends
<1> QED BY <1>1, <1>2, <1>3 DEF Ascends, t

\* So is preceding.
LEMMA PrecedesAppend ==
    ASSUME NEW s \in Seq(Entry), NEW t \in Seq(Entry), NEW e \in Entry, Precedes(s, t)
    PROVE  /\ (\A k \in 1..Len(s) : s[k].id < e.id) => Precedes(s, Append(t, e))
           /\ (\A k \in 1..Len(t) : e.id < t[k].id) => Precedes(Append(s, e), t)
<1>1. \A q \in Seq(Entry) : /\ Len(q) \in Nat /\ Len(Append(q, e)) = Len(q) + 1
                            /\ Append(q, e)[Len(q) + 1] = e
                            /\ \A k \in 1..Len(q) : Append(q, e)[k] = q[k]
  OBVIOUS
<1>2. ASSUME \A k \in 1..Len(s) : s[k].id < e.id,
             NEW j \in 1..Len(s), NEW k \in 1..Len(Append(t, e))
      PROVE  s[j].id < Append(t, e)[k].id
  <2>1. k \in 1..Len(t) \/ k = Len(t) + 1
    BY <1>1
  <2> QED BY <1>1, <1>2, <2>1 DEF Precedes
<1>3. ASSUME \A k \in 1..Len(t) : e.id < t[k].id,
             NEW j \in 1..Len(Append(s, e)), NEW k \in 1..Len(t)
      PROVE  Append(s, e)[j].id < t[k].id
  <2>1. j \in 1..Len(s) \/ j = Len(s) + 1
    BY <1>1
  <2> QED BY <1>1, <1>3, <2>1 DEF Precedes
<1> QED BY <1>2, <1>3 DEF Precedes

LEMMA PrecedesTail ==
    ASSUME NEW s \in Seq(Entry), NEW t \in Seq(Entry), t # <<>>, Precedes(s, t)
    PROVE  Precedes(s, Tail(t)) /\ \A k \in 1..Len(s) : s[k].id < Head(t).id
<1>1. /\ Len(Tail(t)) \in Nat /\ Head(t) = t[1] /\ 1 \in 1..Len(t)
      /\ \A k \in 1..Len(Tail(t)) : k + 1 \in 1..Len(t) /\ Tail(t)[k] = t[k + 1]
  OBVIOUS
<1> QED BY <1>1 DEF Precedes

\* Nothing is named by, and nothing comes before or after, the empty sequence.
LEMMA EmptyOrdered ==
    /\ Names(<<>>) = {} /\ Ascends(<<>>)
    /\ \A s : Precedes(s, <<>>) /\ Precedes(<<>>, s)
<1>1. Len(<<>>) = 0 /\ 1..0 = {}
  OBVIOUS
<1> QED BY <1>1 DEF Names, Ascends, Precedes

\* The new names of a list whose entries keep their names, or that is emptied.
LEMMA SameNames ==
    ASSUME NEW s, NEW t,
           \/ Len(t) = Len(s) /\ \A k \in 1..Len(s) : t[k].id = s[k].id
           \/ t = <<>>
    PROVE  /\ Names(t) \subseteq Names(s)
           /\ Ascends(s) => Ascends(t)
           /\ \A u : Precedes(u, s) => Precedes(u, t)
<1>1. CASE t = <<>>
  BY <1>1, EmptyOrdered
<1>2. CASE Len(t) = Len(s) /\ \A k \in 1..Len(s) : t[k].id = s[k].id
  BY <1>2 DEF Names, Ascends, Precedes
<1> QED BY <1>1, <1>2

\* What stops or starts a child, or empties the list, keeps the order: pipes and
\* list are as they were or empty, and a new child has empty pipes.
LEMMA OrderKept ==
    ASSUME TypeOK, OrderInv, UNCHANGED <<added, shown>>,
           \/ Len(queue') = Len(queue) /\ \A k \in 1..Len(queue) : queue'[k].id = queue[k].id
           \/ queue' = <<>>,
           \A q \in Pids : cin'[q] \in {cin[q], <<>>} /\ cout'[q] \in {cout[q], <<>>},
           \/ sd_pid' \in {sd_pid, NoChild}
           \/ sd_pid' \in Pids /\ cin'[sd_pid'] = <<>> /\ cout'[sd_pid'] = <<>>
    PROVE  OrderInv'
<1>1. /\ Names(queue') \subseteq Names(queue)
      /\ Ascends(queue) => Ascends(queue')
      /\ \A u : Precedes(u, queue) => Precedes(u, queue')
  BY SameNames
<1>2. InLine /\ InOnePlace
  BY DEF OrderInv
<1>3. ASSUME NEW p \in Pids
      PROVE /\ Ascends(cin'[p]) /\ Ascends(cout'[p]) /\ Precedes(cout'[p], cin'[p])
            /\ p = sd_pid' => Precedes(cin'[p], queue') /\ Precedes(cout'[p], queue')
  <2>1. Ascends(cin'[p]) /\ Ascends(cout'[p]) /\ Precedes(cout'[p], cin'[p])
    BY <1>2, EmptyOrdered DEF InLine
  <2>2. ASSUME p = sd_pid' PROVE Precedes(cin'[p], queue') /\ Precedes(cout'[p], queue')
    <3>1. CASE p = sd_pid
      BY <1>1, <1>2, <3>1, EmptyOrdered DEF InLine
    <3>2. CASE p # sd_pid
      <4>1. cin'[p] = <<>> /\ cout'[p] = <<>>
        BY <2>2, <3>2, PidsAssumption
      <4> QED BY <4>1, EmptyOrdered
    <3> QED BY <3>1, <3>2
  <2> QED BY <2>1, <2>2
<1>4. InLine'
  BY <1>1, <1>2, <1>3 DEF InLine
<1>5. \A p \in Pids : Holds(p)' \subseteq Holds(p)
  BY EmptyOrdered DEF Holds
<1>6. InOnePlace'
  <2> DEFINE N == Names(queue)
             N1 == Names(queue')
  <2>1. /\ N \cup shown \subseteq 1..added /\ N \cap shown = {}
        /\ \A p \in Pids :
             /\ Holds(p) \subseteq 1..added
             /\ Holds(p) \cap (N \cup shown) = {}
             /\ \A q \in Pids \ {p} : Holds(p) \cap Holds(q) = {}
    BY <1>2 DEF InOnePlace
  <2>2. N1 \subseteq N
    BY <1>1
  <2> HIDE DEF N, N1
  <2>3. /\ N1 \cup shown \subseteq 1..added /\ N1 \cap shown = {}
        /\ \A p \in Pids :
             /\ Holds(p)' \subseteq 1..added
             /\ Holds(p)' \cap (N1 \cup shown) = {}
             /\ \A q \in Pids \ {p} : Holds(p)' \cap Holds(q)' = {}
    <3>1. N1 \cup shown \subseteq 1..added /\ N1 \cap shown = {}
      BY <2>1, <2>2
    <3>2. ASSUME NEW p \in Pids
          PROVE Holds(p)' \subseteq 1..added /\ Holds(p)' \cap (N1 \cup shown) = {}
      BY <1>5, <2>1, <2>2
    <3>3. ASSUME NEW p \in Pids, NEW q \in Pids \ {p} PROVE Holds(p)' \cap Holds(q)' = {}
      BY <1>5, <2>1
    <3> QED BY <3>1, <3>2, <3>3
  <2> QED BY <2>3 DEF N1, InOnePlace
<1> QED BY <1>4, <1>6 DEF OrderInv

\* filename_add(): the new name is greater than all before.
LEMMA OrderAdd ==
    ASSUME TypeOK, OrderInv, FilenameAdd, UNCHANGED shown
    PROVE  OrderInv'
<1>1. InLine /\ InOnePlace
  BY DEF OrderInv
<1>2. /\ queue' = Append(queue, NewEntry) /\ added' = added + 1 /\ added \in Nat
      /\ NewEntry \in Entry /\ NewEntry.id = added + 1
      /\ queue \in Seq(Entry) /\ \A p \in Pids : cin[p] \in Seq(Entry) /\ cout[p] \in Seq(Entry)
  BY DEF FilenameAdd, NewEntry, Entry, TypeOK
<1>3. /\ \A p \in Pids : cin'[p] \in {cin[p], <<>>} /\ cout'[p] \in {cout[p], <<>>}
      /\ \/ sd_pid' = sd_pid
         \/ sd_pid' \in Pids /\ cin'[sd_pid'] = <<>> /\ cout'[sd_pid'] = <<>>
  <2>1. CASE sd_pid = NoChild
    <3>1. PICK p \in Pids : StegdetectStart(p)
      BY <2>1 DEF FilenameAdd
    <3> QED BY <3>1 DEF StegdetectStart, TypeOK
  <2>2. CASE sd_pid # NoChild
    BY <2>2 DEF FilenameAdd, childVars
  <2> QED BY <2>1, <2>2
<1>4. ASSUME NEW s \in Seq(Entry), Names(s) \subseteq 1..added
      PROVE  \A k \in 1..Len(s) : s[k].id < NewEntry.id
  <2> SUFFICES ASSUME NEW k \in 1..Len(s) PROVE s[k].id < NewEntry.id
    OBVIOUS
  <2>1. s[k].id \in 1..added
    BY <1>4 DEF Names
  <2> QED BY <1>2, <2>1
<1>5. Ascends(queue')
  BY <1>1, <1>2, <1>4, AscendsAppend DEF InLine, InOnePlace
<1>6. ASSUME NEW p \in Pids
      PROVE /\ Ascends(cin'[p]) /\ Ascends(cout'[p]) /\ Precedes(cout'[p], cin'[p])
            /\ p = sd_pid' => Precedes(cin'[p], queue') /\ Precedes(cout'[p], queue')
  <2>1. Ascends(cin'[p]) /\ Ascends(cout'[p]) /\ Precedes(cout'[p], cin'[p])
    BY <1>1, <1>3, EmptyOrdered DEF InLine
  <2>2. ASSUME p = sd_pid' PROVE Precedes(cin'[p], queue') /\ Precedes(cout'[p], queue')
    <3>1. CASE p = sd_pid
      <4>1. Precedes(cin[p], queue) /\ Precedes(cout[p], queue)
        BY <1>1, <3>1 DEF InLine
      <4>2. Names(cin[p]) \subseteq 1..added /\ Names(cout[p]) \subseteq 1..added
        BY <1>1 DEF InOnePlace, Holds
      <4>3. Precedes(cin[p], Append(queue, NewEntry)) /\ Precedes(cout[p], Append(queue, NewEntry))
        BY <1>2, <1>4, <4>1, <4>2, PrecedesAppend
      <4> QED BY <1>2, <1>3, <4>3, EmptyOrdered
    <3>2. CASE p # sd_pid
      <4>1. cin'[p] = <<>> /\ cout'[p] = <<>>
        BY <1>3, <2>2, <3>2
      <4> QED BY <4>1, EmptyOrdered
    <3> QED BY <3>1, <3>2
  <2> QED BY <2>1, <2>2
<1>7. InLine'
  BY <1>5, <1>6 DEF InLine
<1>8. \A p \in Pids : Holds(p)' \subseteq Holds(p)
  BY <1>3, EmptyOrdered DEF Holds
<1>9. Names(queue') = Names(queue) \cup {added + 1}
  BY <1>2, NamesAppend
<1>10. InOnePlace'
  <2> DEFINE N == Names(queue)
             N1 == Names(queue')
  <2>1. /\ N \cup shown \subseteq 1..added /\ N \cap shown = {}
        /\ \A p \in Pids :
             /\ Holds(p) \subseteq 1..added
             /\ Holds(p) \cap (N \cup shown) = {}
             /\ \A q \in Pids \ {p} : Holds(p) \cap Holds(q) = {}
    BY <1>1 DEF InOnePlace
  <2>2. N1 = N \cup {added + 1}
    BY <1>9
  <2> HIDE DEF N, N1
  <2>3. N1 \cup shown \subseteq 1..added' /\ N1 \cap shown = {}
    BY <1>2, <2>1, <2>2
  <2>4. ASSUME NEW p \in Pids
        PROVE Holds(p)' \subseteq 1..added' /\ Holds(p)' \cap (N1 \cup shown) = {}
    BY <1>2, <1>8, <2>1, <2>2
  <2>5. ASSUME NEW p \in Pids, NEW q \in Pids \ {p} PROVE Holds(p)' \cap Holds(q)' = {}
    BY <1>8, <2>1
  <2> QED BY <2>3, <2>4, <2>5 DEF N1, InOnePlace
<1> QED BY <1>7, <1>10 DEF OrderInv

\* chld_write(): the head of the list goes to the end of the child's input, or
\* is lost.
LEMMA OrderWrite ==
    ASSUME TypeOK, EventsFollowChild, OrderInv, ChldWrite
    PROVE  OrderInv'
<1> DEFINE h == Head(queue)
<1>0. PICK c \in Pids : c = sd_pid
  BY DEF ChldWrite, TypeOK, EventsFollowChild
<1>1. InLine /\ InOnePlace
  BY DEF OrderInv
<1>2. /\ queue \in Seq(Entry) /\ queue # <<>>
      /\ \A p \in Pids : cin[p] \in Seq(Entry) /\ cout[p] \in Seq(Entry)
  BY DEF ChldWrite, TypeOK, EventsFollowChild
<1>3. /\ queue' = Tail(queue) /\ UNCHANGED <<added, shown, sd_pid, cout>>
      /\ \/ cin' = cin
         \/ cin' = [cin EXCEPT ![c] = Append(cin[c], h)]
  BY <1>0 DEF ChldWrite
<1>4. /\ cin'[c] \in {cin[c], Append(cin[c], h)}
      /\ \A p \in Pids \ {c} : cin'[p] = cin[p]
  BY <1>2, <1>3 DEF TypeOK
<1>5. /\ h \in Entry /\ h.id \in Names(queue) /\ h.id \notin Names(queue')
      /\ Names(queue') \subseteq Names(queue) /\ queue' \in Seq(Entry)
  BY <1>1, <1>2, <1>3, NamesTail DEF InLine
<1>6. Ascends(queue') /\ \A k \in 1..Len(queue') : h.id < queue'[k].id
  BY <1>1, <1>2, <1>3, AscendsTail DEF InLine
<1>7. /\ Precedes(cin[c], queue') /\ \A k \in 1..Len(cin[c]) : cin[c][k].id < h.id
      /\ Precedes(cout[c], queue') /\ \A k \in 1..Len(cout[c]) : cout[c][k].id < h.id
  BY <1>1, <1>2, <1>3, <1>0, PrecedesTail DEF InLine
<1> HIDE DEF h
<1>8. /\ Ascends(cin'[c]) /\ Precedes(cout[c], cin'[c]) /\ Precedes(cin'[c], queue')
  <2>1. Ascends(cin[c]) /\ Precedes(cout[c], cin[c])
    BY <1>1, <1>2 DEF InLine
  <2>2. Ascends(Append(cin[c], h))
    BY <1>2, <1>5, <1>7, <2>1, AscendsAppend
  <2>3. Precedes(cout[c], Append(cin[c], h))
    BY <1>2, <1>5, <1>7, <2>1, PrecedesAppend
  <2>4. Precedes(Append(cin[c], h), queue')
    BY <1>2, <1>5, <1>6, <1>7, PrecedesAppend
  <2> QED BY <1>4, <1>7, <2>1, <2>2, <2>3, <2>4
<1>9. InLine'
  <2>1. ASSUME NEW p \in Pids
        PROVE /\ Ascends(cin'[p]) /\ Ascends(cout'[p]) /\ Precedes(cout'[p], cin'[p])
              /\ p = sd_pid' => Precedes(cin'[p], queue') /\ Precedes(cout'[p], queue')
    <3>1. CASE p = c
      BY <1>1, <1>3, <1>7, <1>8, <3>1 DEF InLine
    <3>2. CASE p # c
      BY <1>0, <1>1, <1>3, <1>4, <3>2 DEF InLine
    <3> QED BY <3>1, <3>2
  <2> QED BY <1>6, <2>1 DEF InLine
<1>10. /\ Holds(c)' \subseteq Holds(c) \cup {h.id}
       /\ \A p \in Pids \ {c} : Holds(p)' = Holds(p)
  <2>1. Names(Append(cin[c], h)) = Names(cin[c]) \cup {h.id}
    BY <1>2, <1>5, NamesAppend
  <2> QED BY <1>3, <1>4, <2>1 DEF Holds
<1>11. InOnePlace'
  <2> DEFINE N == Names(queue)
             N1 == Names(queue')
  <2>1. /\ N \cup shown \subseteq 1..added /\ N \cap shown = {}
        /\ \A p \in Pids :
             /\ Holds(p) \subseteq 1..added
             /\ Holds(p) \cap (N \cup shown) = {}
             /\ \A q \in Pids \ {p} : Holds(p) \cap Holds(q) = {}
    BY <1>1 DEF InOnePlace
  <2>2. N1 \subseteq N /\ h.id \in N /\ h.id \notin N1
    BY <1>5
  <2> HIDE DEF N, N1
  <2>3. N1 \cup shown \subseteq 1..added /\ N1 \cap shown = {}
    BY <2>1, <2>2
  <2>4. ASSUME NEW p \in Pids
        PROVE Holds(p)' \subseteq 1..added /\ Holds(p)' \cap (N1 \cup shown) = {}
    <3>1. CASE p = c
      BY <1>10, <2>1, <2>2, <3>1
    <3>2. CASE p # c
      BY <1>10, <2>1, <2>2, <3>2
    <3> QED BY <3>1, <3>2
  <2>5. ASSUME NEW p \in Pids, NEW q \in Pids \ {p} PROVE Holds(p)' \cap Holds(q)' = {}
    <3>1. CASE p = c
      BY <1>10, <2>1, <2>2, <3>1
    <3>2. CASE q = c
      BY <1>10, <2>1, <2>2, <3>2
    <3>3. CASE p # c /\ q # c
      BY <1>10, <2>1, <3>3
    <3> QED BY <3>1, <3>2, <3>3
  <2> QED BY <1>3, <2>3, <2>4, <2>5 DEF N1, InOnePlace
<1> QED BY <1>9, <1>11 DEF OrderInv

\* A child moves the head of its input to the end of its results.
LEMMA OrderAnalyse ==
    ASSUME TypeOK, OrderInv, NEW p \in Pids, ChildAnalyse(p)
    PROVE  OrderInv'
<1> DEFINE h == Head(cin[p])
<1>1. InLine /\ InOnePlace
  BY DEF OrderInv
<1>2. /\ queue \in Seq(Entry) /\ cin[p] \in Seq(Entry) /\ cout[p] \in Seq(Entry) /\ cin[p] # <<>>
      /\ cin' = [cin EXCEPT ![p] = Tail(cin[p])]
      /\ cout' = [cout EXCEPT ![p] = Append(cout[p], h)]
      /\ UNCHANGED <<added, shown, sd_pid, queue>>
  BY DEF ChildAnalyse, TypeOK, listVars, connVars, restVars
<1>3. /\ cin'[p] = Tail(cin[p]) /\ cout'[p] = Append(cout[p], h)
      /\ \A q \in Pids \ {p} : cin'[q] = cin[q] /\ cout'[q] = cout[q]
  BY <1>2 DEF TypeOK
<1>4. /\ h \in Entry /\ h = cin[p][1] /\ 1 \in 1..Len(cin[p]) /\ Tail(cin[p]) \in Seq(Entry)
      /\ h.id \in Names(cin[p]) /\ Names(Tail(cin[p])) \subseteq Names(cin[p])
  BY <1>2, NamesTail
<1>5. /\ Ascends(Tail(cin[p])) /\ \A k \in 1..Len(Tail(cin[p])) : h.id < Tail(cin[p])[k].id
      /\ Ascends(cin[p]) /\ Ascends(cout[p]) /\ Precedes(cout[p], cin[p])
  BY <1>1, <1>2, AscendsTail DEF InLine
<1>6. Precedes(cout[p], Tail(cin[p])) /\ \A k \in 1..Len(cout[p]) : cout[p][k].id < h.id
  BY <1>2, <1>5, PrecedesTail
<1> HIDE DEF h
<1>7. Ascends(cin'[p]) /\ Ascends(cout'[p]) /\ Precedes(cout'[p], cin'[p])
  <2>1. Ascends(Append(cout[p], h))
    BY <1>2, <1>4, <1>5, <1>6, AscendsAppend
  <2>2. Precedes(Append(cout[p], h), Tail(cin[p]))
    BY <1>2, <1>4, <1>5, <1>6, PrecedesAppend
  <2> QED BY <1>3, <1>5, <2>1, <2>2
<1>8. ASSUME p = sd_pid PROVE Precedes(cin'[p], queue) /\ Precedes(cout'[p], queue)
  <2>1. Precedes(cin[p], queue) /\ Precedes(cout[p], queue)
    BY <1>1, <1>8 DEF InLine
  <2>2. \A k \in 1..Len(queue) : h.id < queue[k].id
    BY <1>4, <2>1 DEF Precedes
  <2>3. Precedes(cout'[p], queue)
    BY <1>2, <1>3, <1>4, <2>1, <2>2, PrecedesAppend
  <2>4. Precedes(Tail(cin[p]), queue)
    <3> SUFFICES ASSUME NEW j \in 1..Len(Tail(cin[p])), NEW k \in 1..Len(queue)
                 PROVE  Tail(cin[p])[j].id < queue[k].id
      BY DEF Precedes
    <3>1. j + 1 \in 1..Len(cin[p]) /\ Tail(cin[p])[j] = cin[p][j + 1]
      BY <1>2, TailAt
    <3> QED BY <2>1, <3>1 DEF Precedes
  <2> QED BY <1>3, <2>3, <2>4
<1>9. InLine'
  <2>1. ASSUME NEW q \in Pids
        PROVE /\ Ascends(cin'[q]) /\ Ascends(cout'[q]) /\ Precedes(cout'[q], cin'[q])
              /\ q = sd_pid' => Precedes(cin'[q], queue') /\ Precedes(cout'[q], queue')
    <3>1. CASE q = p
      BY <1>2, <1>7, <1>8, <3>1
    <3>2. CASE q # p
      BY <1>1, <1>2, <1>3, <3>2 DEF InLine
    <3> QED BY <3>1, <3>2
  <2> QED BY <1>1, <1>2, <2>1 DEF InLine
<1>10. \A q \in Pids : Holds(q)' \subseteq Holds(q)
  <2>1. Names(Append(cout[p], h)) = Names(cout[p]) \cup {h.id}
    BY <1>2, <1>4, NamesAppend
  <2> QED BY <1>3, <1>4, <2>1 DEF Holds
<1>11. InOnePlace'
  BY <1>1, <1>2, <1>10 DEF InOnePlace
<1> QED BY <1>9, <1>11 DEF OrderInv

\* chld_read(): the results read are the child's first, and no other file.
LEMMA OrderRead ==
    ASSUME TypeOK, EventsFollowChild, OrderInv, ChldRead
    PROVE  OrderInv'
<1> DEFINE c == sd_pid
           s == cout[c]
<1>1. InLine /\ InOnePlace
  BY DEF OrderInv
<1>2. /\ c \in Pids /\ s \in Seq(Entry) /\ Len(s) \in Nat
      /\ UNCHANGED <<added, queue, sd_pid, cin>>
  BY DEF ChldRead, TypeOK, EventsFollowChild, listVars, connVars
<1>3. PICK n \in 1..Len(s), cut \in 0..1 :
        /\ cout' = [cout EXCEPT ![c] = SubSeq(s, n + 1, Len(s))]
        /\ shown' = shown \cup {s[k].id : k \in 1..(n - cut)}
  BY DEF ChldRead
<1> DEFINE t == SubSeq(s, n + 1, Len(s))
           X == {s[k].id : k \in 1..(n - cut)}
<1>4. cout'[c] = t /\ \A q \in Pids \ {c} : cout'[q] = cout[q]
  BY <1>2, <1>3 DEF TypeOK
<1>5. /\ Len(t) = Len(s) - n /\ Len(t) \in Nat
      /\ \A k \in 1..Len(t) : n + k \in 1..Len(s) /\ t[k] = s[n + k]
  BY <1>2
<1>6. /\ Ascends(s) /\ Precedes(s, cin[c]) /\ Precedes(s, queue)
  BY <1>1, <1>2 DEF InLine
<1>7. 1..(n - cut) \subseteq 1..Len(s) /\ \A k \in 1..(n - cut) : k <= n
  BY <1>2
<1>8. \A k \in 1..Len(s) : s[k].id \in Nat
  <2>1. \A k \in 1..Len(s) : s[k] \in Entry
    BY <1>2
  <2> QED BY <2>1 DEF Entry
<1> HIDE DEF s, t
<1>9. /\ Ascends(t) /\ Precedes(t, cin[c]) /\ Precedes(t, queue) /\ Names(t) \subseteq Names(s)
  <2>1. ASSUME NEW j \in 1..Len(t), NEW k \in 1..Len(t), j < k PROVE t[j].id < t[k].id
    <3>1. n + j < n + k
      BY <2>1
    <3> QED BY <1>5, <1>6, <3>1 DEF Ascends
  <2>2. Precedes(t, cin[c]) /\ Precedes(t, queue)
    BY <1>5, <1>6 DEF Precedes
  <2>3. Names(t) \subseteq Names(s)
    BY <1>5 DEF Names
  <2> QED BY <2>1, <2>2, <2>3 DEF Ascends
<1>10. X \subseteq Names(s) /\ X \cap Names(t) = {} /\ X \cap Names(cin[c]) = {}
  <2>1. X \subseteq Names(s)
    BY <1>7 DEF Names
  <2>2. ASSUME NEW i \in X, i \in Names(t) PROVE FALSE
    <3>1. PICK k \in 1..(n - cut) : i = s[k].id
      OBVIOUS
    <3>2. PICK j \in 1..Len(t) : t[j].id = i
      BY <2>2, NameAt
    <3>3. k < n + j /\ k \in 1..Len(s) /\ n + j \in 1..Len(s) /\ s[n + j].id = i
      BY <1>5, <1>7, <3>2
    <3>4. s[k].id < s[n + j].id
      BY <1>6, <3>3 DEF Ascends
    <3> QED BY <1>8, <3>1, <3>3, <3>4
  <2>3. ASSUME NEW i \in X, i \in Names(cin[c]) PROVE FALSE
    <3>1. PICK k \in 1..(n - cut) : i = s[k].id
      OBVIOUS
    <3>2. PICK j \in 1..Len(cin[c]) : cin[c][j].id = i
      BY <2>3, NameAt
    <3>3. s[k].id < cin[c][j].id
      BY <1>6, <1>7 DEF Precedes
    <3> QED BY <1>7, <1>8, <3>1, <3>2, <3>3
  <2> QED BY <2>1, <2>2, <2>3
<1>11. InLine'
  <2>1. ASSUME NEW p \in Pids
        PROVE /\ Ascends(cin'[p]) /\ Ascends(cout'[p]) /\ Precedes(cout'[p], cin'[p])
              /\ p = sd_pid' => Precedes(cin'[p], queue') /\ Precedes(cout'[p], queue')
    <3>1. CASE p = c
      BY <1>1, <1>2, <1>4, <1>9, <3>1 DEF InLine
    <3>2. CASE p # c
      BY <1>1, <1>2, <1>4, <3>2 DEF InLine
    <3> QED BY <3>1, <3>2
  <2> QED BY <1>1, <1>2, <2>1 DEF InLine
<1>12. /\ Holds(c)' \subseteq Holds(c) /\ Holds(c)' \cap X = {} /\ X \subseteq Holds(c)
       /\ \A p \in Pids \ {c} : Holds(p)' = Holds(p)
  BY <1>2, <1>4, <1>9, <1>10 DEF Holds, s
<1> HIDE DEF X
<1>13. InOnePlace'
  <2> DEFINE N == Names(queue)
  <2>1. /\ N \cup shown \subseteq 1..added /\ N \cap shown = {}
        /\ \A p \in Pids :
             /\ Holds(p) \subseteq 1..added
             /\ Holds(p) \cap (N \cup shown) = {}
             /\ \A q \in Pids \ {p} : Holds(p) \cap Holds(q) = {}
    BY <1>1 DEF InOnePlace
  <2>2. shown' = shown \cup X
    BY <1>3 DEF X, s
  <2> HIDE DEF N
  <2>3. N \cup shown' \subseteq 1..added /\ N \cap shown' = {}
    BY <1>2, <1>12, <2>1, <2>2
  <2>4. ASSUME NEW p \in Pids
        PROVE Holds(p)' \subseteq 1..added /\ Holds(p)' \cap (N \cup shown') = {}
    <3>1. CASE p = c
      BY <1>2, <1>12, <2>1, <2>2, <3>1
    <3>2. CASE p # c
      BY <1>2, <1>12, <2>1, <2>2, <3>2
    <3> QED BY <3>1, <3>2
  <2>5. ASSUME NEW p \in Pids, NEW q \in Pids \ {p} PROVE Holds(p)' \cap Holds(q)' = {}
    BY <1>2, <1>12, <2>1
  <2> QED BY <1>2, <2>3, <2>4, <2>5 DEF N, InOnePlace
<1> QED BY <1>11, <1>13 DEF OrderInv

LEMMA OrderInit == Init => OrderInv
<1> SUFFICES ASSUME Init PROVE OrderInv
  OBVIOUS
<1>1. /\ queue = <<>> /\ shown = {} /\ \A p \in Pids : cin[p] = <<>> /\ cout[p] = <<>>
  BY DEF Init
<1>2. \A p \in Pids : Holds(p) = {}
  BY <1>1, EmptyOrdered DEF Holds
<1>3. InLine
  BY <1>1, EmptyOrdered DEF InLine
<1>4. InOnePlace
  BY <1>1, <1>2, EmptyOrdered DEF InOnePlace
<1> QED BY <1>3, <1>4 DEF OrderInv

LEMMA OrderNext == TypeOK /\ EventsFollowChild /\ OrderInv /\ [Next]_vars => OrderInv'
<1> SUFFICES ASSUME TypeOK, EventsFollowChild, OrderInv, [Next]_vars PROVE OrderInv'
  OBVIOUS
<1> USE DEF uiVars, listVars, connVars, timerVars, childVars, restVars
<1>1. ASSUME UNCHANGED <<queue, added, shown, sd_pid, cin, cout>> PROVE OrderInv'
  BY <1>1, OrderKept
<1>2. ASSUME StegdetectStop, queue' = queue \/ queue' = <<>>, UNCHANGED <<added, shown>>
      PROVE  OrderInv'
  <2>1. /\ \A q \in Pids : cin'[q] \in {cin[q], <<>>} /\ cout'[q] \in {cout[q], <<>>}
        /\ sd_pid' \in {sd_pid, NoChild}
    BY <1>2 DEF StegdetectStop, TypeOK
  <2> QED BY <1>2, <2>1, OrderKept
<1>3. CASE StopClicked \/ XstegDie \/ ChldReadError \/ SignalCb \/ DispatchReturns
  <2>1. StegdetectStop /\ (queue' = queue \/ queue' = <<>>) /\ UNCHANGED <<added, shown>>
    BY <1>3 DEF StopClicked, XstegDie, ChldReadError, SignalCb, DispatchReturns
  <2> QED BY <1>2, <2>1
<1>4. CASE SettingsChange \/ MenuOpen \/ DialogDismissed \/ OpenDir \/ OpenUnreadable
  BY <1>1, <1>4 DEF SettingsChange, MenuOpen, DialogDismissed, OpenDir, OpenUnreadable
<1>5. CASE OpenFile
  <2>1. FilenameAdd /\ UNCHANGED shown
    BY <1>5 DEF OpenFile
  <2> QED BY <2>1, OrderAdd
<1>6. ASSUME NEW last \in BOOLEAN, ScanAdd(last) PROVE OrderInv'
  <2>1. FilenameAdd /\ UNCHANGED shown
    BY <1>6 DEF ScanAdd
  <2> QED BY <2>1, OrderAdd
<1>7. CASE ScanStopped \/ ScanEnd \/ GtkCb \/ GtkCbEnd
  BY <1>1, <1>7 DEF ScanStopped, ScanEnd, GtkCb, GtkCbEnd
<1>8. CASE DelayedStart
  <2>1. PICK p \in Pids : StegdetectStart(p)
    BY <1>8 DEF DelayedStart
  <2>2. UNCHANGED <<queue, added, shown>>
    BY <1>8 DEF DelayedStart
  <2>3. /\ \A q \in Pids : cin'[q] \in {cin[q], <<>>} /\ cout'[q] \in {cout[q], <<>>}
        /\ sd_pid' \in Pids /\ cin'[sd_pid'] = <<>> /\ cout'[sd_pid'] = <<>>
    BY <2>1 DEF StegdetectStart, TypeOK
  <2> QED BY <2>2, <2>3, OrderKept
<1>9. CASE ChldWriteChange
  <2>1. /\ queue \in Seq(Entry) /\ queue # <<>>
        /\ queue' = [queue EXCEPT ![1] = [queue[1] EXCEPT !.change = FALSE]]
        /\ UNCHANGED <<added, shown, sd_pid, cin, cout>>
    BY <1>9 DEF ChldWriteChange, TypeOK
  <2>2. Len(queue') = Len(queue) /\ \A k \in 1..Len(queue) : queue[k] \in Entry
    BY <2>1
  <2>3. \A k \in 1..Len(queue) : queue'[k].id = queue[k].id
    BY <2>1, <2>2 DEF Entry
  <2> QED BY <2>1, <2>2, <2>3, OrderKept
<1>10. CASE ChldWrite
  BY <1>10, OrderWrite
<1>11. CASE ChldRead
  BY <1>11, OrderRead
<1>12. ASSUME NEW p \in Pids, ChildAnalyse(p) PROVE OrderInv'
  BY <1>12, OrderAnalyse
<1>13. ASSUME NEW p \in Pids, ChildExit(p) \/ ChildFail(p) PROVE OrderInv'
  BY <1>1, <1>13 DEF ChildExit, ChildFail
<1>14. CASE ChldHandler
  BY <1>1, <1>14 DEF ChldHandler
<1>15. CASE UNCHANGED vars
  BY <1>1, <1>15 DEF vars
<1> QED BY <1>3, <1>4, <1>5, <1>6, <1>7, <1>8, <1>9, <1>10, <1>11, <1>12, <1>13, <1>14, <1>15
        DEF Next, Handlers, ScanStep, Callbacks, Children

\* Three sequences one behind the other ascend if each does and precedes those
\* behind it.
LEMMA LineAscends ==
    ASSUME NEW a \in Seq(Entry), NEW b \in Seq(Entry), NEW q \in Seq(Entry),
           Ascends(a), Ascends(b), Ascends(q), Precedes(a, b), Precedes(a, q), Precedes(b, q),
           NEW j \in 1..Len(Ids(a) \o Ids(b) \o Ids(q)),
           NEW k \in 1..Len(Ids(a) \o Ids(b) \o Ids(q)), j < k
    PROVE  (Ids(a) \o Ids(b) \o Ids(q))[j] < (Ids(a) \o Ids(b) \o Ids(q))[k]
<1> DEFINE line == Ids(a) \o Ids(b) \o Ids(q)
           la == Len(a)
           lb == Len(b)
           lq == Len(q)
<1> SUFFICES line[j] < line[k]
  OBVIOUS
<1>1. /\ la \in Nat /\ lb \in Nat /\ lq \in Nat
      /\ \A s \in {a, b, q} : Len(Ids(s)) = Len(s) /\ \A m \in 1..Len(s) : Ids(s)[m] = s[m].id
      /\ \A s \in {a, b, q} : Ids(s) \in Seq(Nat)
  <2>1. \A s \in Seq(Entry) : \A m \in 1..Len(s) : s[m].id \in Nat
    <3>1. \A s \in Seq(Entry) : \A m \in 1..Len(s) : s[m] \in Entry
      OBVIOUS
    <3> QED BY <3>1 DEF Entry
  <2> QED BY <2>1 DEF Ids
<1>2. /\ Len(line) = la + lb + lq
      /\ \A m \in 1..la : line[m] = a[m].id
      /\ \A m \in (la + 1)..(la + lb) : line[m] = b[m - la].id
      /\ \A m \in (la + lb + 1)..(la + lb + lq) : line[m] = q[m - la - lb].id
  <2> DEFINE x == Ids(a)
             y == Ids(b)
             z == Ids(q)
  <2>1. /\ x \in Seq(Nat) /\ y \in Seq(Nat) /\ z \in Seq(Nat)
        /\ Len(x) = la /\ Len(y) = lb /\ Len(z) = lq
        /\ \A m \in 1..la : x[m] = a[m].id
        /\ \A m \in 1..lb : y[m] = b[m].id
        /\ \A m \in 1..lq : z[m] = q[m].id
    BY <1>1
  <2> HIDE DEF x, y, z, la, lb, lq
  <2>2. /\ Len(x \o y \o z) = la + lb + lq
        /\ \A m \in 1..la : (x \o y \o z)[m] = x[m]
        /\ \A m \in (la + 1)..(la + lb) : (x \o y \o z)[m] = y[m - la]
        /\ \A m \in (la + lb + 1)..(la + lb + lq) : (x \o y \o z)[m] = z[m - la - lb]
    <3>1. x \in Seq(Nat) /\ y \in Seq(Nat) /\ z \in Seq(Nat) /\ la = Len(x) /\ lb = Len(y) /\ lq = Len(z)
      BY <2>1
    <3> QED BY <3>1, ConcatThree
  <2>3. line = x \o y \o z
    BY DEF x, y, z
  <2> HIDE DEF line
  <2>4. \A m \in 1..la : line[m] = a[m].id
    BY <2>1, <2>2, <2>3
  <2>5. \A m \in (la + 1)..(la + lb) : line[m] = b[m - la].id
    <3>1. \A m \in (la + 1)..(la + lb) : m - la \in 1..lb
      BY <1>1
    <3> QED BY <2>1, <2>2, <2>3, <3>1
  <2>6. \A m \in (la + lb + 1)..(la + lb + lq) : line[m] = q[m - la - lb].id
    <3>1. \A m \in (la + lb + 1)..(la + lb + lq) : m - la - lb \in 1..lq
      BY <1>1
    <3>2. \A m \in (la + lb + 1)..(la + lb + lq) : line[m] = z[m - la - lb]
      BY <2>2, <2>3
    <3>3. \A m \in 1..lq : z[m] = q[m].id
      BY <2>1
    <3> QED BY <3>1, <3>2, <3>3
  <2> QED BY <2>2, <2>3, <2>4, <2>5, <2>6
<1>3. /\ j \in 1..(la + lb + lq) /\ k \in 1..(la + lb + lq) /\ j < k
  BY <1>2
<1> HIDE DEF line, la, lb, lq
<1>4. /\ \A m \in 1..la, n \in 1..la : m < n => a[m].id < a[n].id
      /\ \A m \in 1..lb, n \in 1..lb : m < n => b[m].id < b[n].id
      /\ \A m \in 1..lq, n \in 1..lq : m < n => q[m].id < q[n].id
  BY DEF Ascends, la, lb, lq
<1>5. /\ \A m \in 1..la, n \in 1..lb : a[m].id < b[n].id
      /\ \A m \in 1..la, n \in 1..lq : a[m].id < q[n].id
      /\ \A m \in 1..lb, n \in 1..lq : b[m].id < q[n].id
  BY DEF Precedes, la, lb, lq
<1>6. CASE k \in 1..la
  <2>1. j \in 1..la
    BY <1>1, <1>3, <1>6
  <2> QED BY <1>2, <1>3, <1>4, <1>6, <2>1
<1>7. CASE k \in (la + 1)..(la + lb)
  <2>1. k - la \in 1..lb /\ line[k] = b[k - la].id
    BY <1>1, <1>2, <1>7
  <2>2. CASE j \in 1..la
    BY <1>2, <1>5, <2>1, <2>2
  <2>3. CASE j \in (la + 1)..(la + lb)
    <3>1. j - la \in 1..lb /\ line[j] = b[j - la].id /\ j - la < k - la
      BY <1>1, <1>2, <1>3, <1>7, <2>3
    <3> QED BY <1>4, <2>1, <3>1
  <2> QED BY <1>1, <1>3, <1>7, <2>2, <2>3
<1>8. CASE k \in (la + lb + 1)..(la + lb + lq)
  <2>1. k - la - lb \in 1..lq /\ line[k] = q[k - la - lb].id
    BY <1>1, <1>2, <1>8
  <2>2. CASE j \in 1..la
    BY <1>2, <1>5, <2>1, <2>2
  <2>3. CASE j \in (la + 1)..(la + lb)
    <3>1. j - la \in 1..lb /\ line[j] = b[j - la].id
      BY <1>1, <1>2, <2>3
    <3> QED BY <1>5, <2>1, <3>1
  <2>4. CASE j \in (la + lb + 1)..(la + lb + lq)
    <3>1. j - la - lb \in 1..lq /\ line[j] = q[j - la - lb].id /\ j - la - lb < k - la - lb
      BY <1>1, <1>2, <1>3, <1>8, <2>4
    <3> QED BY <1>4, <2>1, <3>1
  <2> QED BY <1>1, <1>3, <1>8, <2>2, <2>3, <2>4
<1> QED BY <1>1, <1>3, <1>6, <1>7, <1>8

LEMMA OnceFromPlaces == InOnePlace => AtMostOnce
<1> SUFFICES ASSUME InOnePlace, NEW i \in 1..added
             PROVE  LET in(s) == \E k \in 1..Len(s) : s[k].id = i
                        holders == {p \in Pids : in(cin[p]) \/ in(cout[p])}
                    IN  /\ Cardinality(holders) <= 1
                        /\ in(queue) \/ i \in shown => holders = {}
                        /\ in(queue) => i \notin shown
  BY DEF AtMostOnce
<1> DEFINE in(s) == \E k \in 1..Len(s) : s[k].id = i
           holders == {p \in Pids : in(cin[p]) \/ in(cout[p])}
<1>1. \A s : in(s) <=> i \in Names(s)
  BY NameAt
<1> HIDE DEF in
<1>2. holders = {p \in Pids : i \in Holds(p)}
  BY <1>1 DEF Holds
<1> HIDE DEF holders
<1>3. /\ in(queue) \/ i \in shown => holders = {}
      /\ in(queue) => i \notin shown
  BY <1>1, <1>2 DEF InOnePlace
<1>4. Cardinality(holders) <= 1
  <2>1. CASE holders = {}
    BY <2>1, FS_EmptySet
  <2>2. CASE holders # {}
    <3>1. PICK p : p \in holders
      BY <2>2
    <3>2. holders = {p}
      BY <1>2, <3>1 DEF InOnePlace
    <3>3. Cardinality({p}) = 1
      BY FS_Singleton
    <3> QED BY <3>2, <3>3
  <2> QED BY <2>1, <2>2
<1> QED BY <1>3, <1>4 DEF in, holders

\* The files a child was given and the list behind it stay in the order of
\* adding, and no file is twice anywhere, over any number of stops, restarts,
\* deaths of children, lost names and cut reads.
THEOREM OrderCorrect == Spec => []InOrder
<1>1. TypeOK /\ OrderInv => InOrder
  <2> SUFFICES ASSUME TypeOK, OrderInv PROVE InOrder
    OBVIOUS
  <2>1. InLine /\ InOnePlace
    BY DEF OrderInv
  <2>2. ASSUME NEW p \in Pids
        PROVE LET line == Ids(cout[p]) \o Ids(cin[p]) \o Ids(IF p = sd_pid THEN queue ELSE <<>>)
              IN  \A j, k \in 1..Len(line) : j < k => line[j] < line[k]
    <3> DEFINE q == IF p = sd_pid THEN queue ELSE <<>>
    <3>1. /\ cout[p] \in Seq(Entry) /\ cin[p] \in Seq(Entry) /\ q \in Seq(Entry)
      BY DEF TypeOK
    <3>2. /\ Ascends(cout[p]) /\ Ascends(cin[p]) /\ Ascends(q)
          /\ Precedes(cout[p], cin[p]) /\ Precedes(cout[p], q) /\ Precedes(cin[p], q)
      BY <2>1, EmptyOrdered DEF InLine
    <3> HIDE DEF q
    <3>3. \A j, k \in 1..Len(Ids(cout[p]) \o Ids(cin[p]) \o Ids(q)) :
             j < k => (Ids(cout[p]) \o Ids(cin[p]) \o Ids(q))[j]
                        < (Ids(cout[p]) \o Ids(cin[p]) \o Ids(q))[k]
      BY <3>1, <3>2, LineAscends
    <3> QED BY <3>3 DEF q
  <2> QED BY <2>1, <2>2, OnceFromPlaces DEF InOrder
<1> QED BY <1>1, TypeInit, TypeNext, EventsInit, EventsNext, OrderInit, OrderNext, PTL DEF Spec

=============================================================================
