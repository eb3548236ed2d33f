---------------------------- MODULE SendRepeater ----------------------------
(***************************************************************************)
(* SendRepeater and IntraCliqueManager (src/network): a control message    *)
(* repeated in several sync slots, upstream from a slave to its master or  *)
(* downstream from a master to its slaves, followed by a callback.         *)
(***************************************************************************)
EXTENDS Integers

CONSTANT CountRepeatsPerControlSync   \* Policy::...

ASSUME RepeaterAssumption == CountRepeatsPerControlSync \in Nat

VARIABLES
    repeaterIsActive,
    onDoneCallback,
    repeaterCounter

repeaterVars == <<repeaterIsActive, onDoneCallback, repeaterCounter>>

DoneCallbacks == {"onDoneGranularityWithAction", "onDoneRepeatingUpstream", "onDoneScatter"}

RepeaterTypeOK ==
    /\ repeaterIsActive \in BOOLEAN
    /\ onDoneCallback \in DoneCallbacks \cup {"nullptr"}
    /\ repeaterCounter \in 0 .. CountRepeatsPerControlSync

\* start(): refused while busy.
StartRepeating(cb) ==
    IF repeaterIsActive
      THEN UNCHANGED repeaterVars
      ELSE /\ repeaterIsActive' = TRUE
           /\ onDoneCallback' = cb
           /\ repeaterCounter' = 0

\* IntraCliqueManager::doUpstream...(): a slave tells its master and waits
RepeatUpstream == StartRepeating("onDoneRepeatingUpstream")

\* doDownstreamCliqueSizeChange(), doDownstreamScatter(): a master tells its
\* slaves and then does to itself what it told them.
RepeatDownstream(property) ==
    StartRepeating(IF property = "Scatter" THEN "onDoneScatter"
                                           ELSE "onDoneGranularityWithAction")

\* stop(), through IntraCliqueManager::abort()
StopRepeating ==
    /\ repeaterIsActive' = FALSE
    /\ UNCHANGED <<onDoneCallback, repeaterCounter>>

\* Counting one repeat more before done.
IsRepeatingDoneMutant == repeaterCounter + 1 > CountRepeatsPerControlSync + 1

\* checkDoneAndEnactControl() after shouldSend() counted this repeat.
IsRepeatingDone == repeaterCounter + 1 > CountRepeatsPerControlSync

\* shouldSend() with heads, then checkDoneAndEnactControl() without the callback.
CountRepeat ==
    /\ repeaterIsActive' = ~IsRepeatingDone
    /\ repeaterCounter' = IF IsRepeatingDone THEN 0 ELSE repeaterCounter + 1
    /\ UNCHANGED onDoneCallback

RepeaterInit ==
    /\ repeaterIsActive = FALSE
    /\ onDoneCallback = "nullptr"
    /\ repeaterCounter = 0

=============================================================================
