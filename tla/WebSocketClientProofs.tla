----------------------- MODULE WebSocketClientProofs ------------------------
(***************************************************************************)
(* For any number of subscriptions, redirects and frames: the types of     *)
(* module WebSocketClient, the heartbeat's budget of PINGs, the ownership  *)
(* of hios and timers, the order of callbacks that Session asks for, and   *)
(* the order and completeness of the subscriptions that are sent.          *)
(***************************************************************************)
EXTENDS WebSocketClient, SequenceTheorems, TLAPS

-----------------------------------------------------------------------------
(* What TypeOK needs to be inductive: a subscription is left while main is  *)
(* subscribing, and whatever indexes a connection names one.                *)

ReqBound == pc \in {"connect", "wait", "send", "write"} => req < NumSubs

NoChannel ==
    channel = 0 => /\ pc \in {"connect", "wait"}
                   /\ loop = "off" /\ lpc = "idle" /\ posted = << >>
                   /\ \A g \in Gen : io[g] = "none" /\ ~heartbeat[g] /\ ~alive[g]

IndexSet == /\ pc = "write" => held # 0
            /\ lpc = "onConnection" => cur # 0
            /\ lpc \in {"onMessage", "frames"} => chunk # << >>

TypeInv == TypeOK /\ ReqBound /\ NoChannel /\ IndexSet

\* The three kinds of item that are written are items.
LEMMA ItemTypes == /\ \A x \in Ids \cup {UPGRADE} : Data(x) \in Items
                   /\ Control \in Items
                   /\ Nothing \in Items
  BY DEF Items, Data, Control, Nothing

\* What main and the loop post are events, and a queue of events stays one.
LEMMA EventTypes ==
    /\ <<"startConnect", 1>> \in Events
    /\ <<"closesocket", 0>> \in Events
    /\ \A g \in Gen : PostedClose(g) \in Events
  BY DEF Events

LEMMA PostType ==
    ASSUME posted \in Seq(Events)
    PROVE  /\ \A e \in Events : <<e>> \in Seq(Events)
           /\ \A e \in Events : Append(posted, e) \in Seq(Events)
           /\ posted # << >> => Tail(posted) \in Seq(Events)
           /\ posted # << >> => \A e \in Events : Append(Tail(posted), e) \in Seq(Events)
           /\ posted # << >> => Head(posted) \in Events
  OBVIOUS

\* Carrying out a close keeps the types, whichever generation it is about.
LEMMA CloseNowType == ASSUME HioTypeOK, NEW g, CloseNow(g)
                      PROVE  HioTypeOK'
  BY ItemTypes DEF HioTypeOK, CloseNow, close_timers, on_close

\* Putting it off does too; status is the caller's business.
LEMMA CloseLaterType ==
    ASSUME HioTypeOK, NEW g, CloseLater(g),
           status' \in [Gen -> {"NULL", "OPENED", "CONNECTING", "CONNECTED", "CLOSED"}]
    PROVE  HioTypeOK'
  BY DEF HioTypeOK, CloseLater

LEMMA CloseType == ASSUME HioTypeOK, NEW g, hio_close(g) \/ ChannelClose(g)
                   PROVE  HioTypeOK'
  <1>1. CASE UNCHANGED hioVars
    BY <1>1 DEF HioTypeOK, hioVars
  <1>2. CASE CloseNow(g)
    BY <1>2, CloseNowType
  <1>3. CASE CloseLater(g) /\ UNCHANGED status
    BY <1>3, CloseLaterType DEF HioTypeOK
  <1>4. CASE CloseLater(g) /\ status' = [status EXCEPT ![g] = "CLOSED"]
    BY <1>4, CloseLaterType DEF HioTypeOK
  <1> QED BY <1>1, <1>2, <1>3, <1>4 DEF hio_close, ChannelClose

\* A write moves items to the socket, to the write queue, or posts a close.
LEMMA WriteType ==
    ASSUME SentTypeOK, wq \in [Gen -> Items], NEW g \in Gen, NEW item \in Items,
           hio_write(g, item)
    PROVE  SentTypeOK' /\ wq' \in [Gen -> Items]
  <1>1. CASE ToSocket(g, item) /\ UNCHANGED <<wq, posted>>
    BY <1>1 DEF ToSocket, SentTypeOK, Items
  <1>2. CASE Enqueue(g, item) /\ UNCHANGED <<out, posted>>
    BY <1>2 DEF Enqueue, SentTypeOK, Items
  <1>3. CASE WriteFails(g)
    BY <1>3, EventTypes, PostType DEF WriteFails, SentTypeOK
  <1>4. CASE UNCHANGED <<out, wq, posted>>
    BY <1>4 DEF SentTypeOK
  <1> QED BY <1>1, <1>2, <1>3, <1>4 DEF hio_write, Written

\* A part of the state that a step leaves alone keeps its types.
LEMMA Frame ==
    /\ MainTypeOK /\ UNCHANGED mainVars => MainTypeOK'
    /\ ClientTypeOK /\ UNCHANGED <<channel, ping_cnt, alive, notify, unanswered>>
         => ClientTypeOK'
    /\ HioTypeOK /\ UNCHANGED hioVars => HioTypeOK'
    /\ SentTypeOK /\ UNCHANGED <<out, posted>> => SentTypeOK'
    /\ WireTypeOK /\ UNCHANGED wireVars => WireTypeOK'
    /\ LoopTypeOK /\ UNCHANGED loopVars => LoopTypeOK'
  BY DEF MainTypeOK, ClientTypeOK, HioTypeOK, SentTypeOK, WireTypeOK, LoopTypeOK,
         mainVars, hioVars, wireVars, loopVars

\* The steps of the main thread.
LEMMA MainType == ASSUME TypeInv, Main
                  PROVE  TypeInv'
  <1> USE ClientAssumption DEF TypeInv, TypeOK, mainVars, wireVars, hioVars, loopVars
  <1>1. CASE MainConnect
    <2>1. WireTypeOK'
      BY <1>1, Frame DEF MainConnect
    <2>2. MainTypeOK'
      BY <1>1 DEF MainConnect, MainTypeOK
    <2>3. ClientTypeOK'
      <3>1. 1 \in Gen /\ 1 \in 0 .. MaxChan
        BY DEF Gen
      <3>2. channel' \in 0 .. MaxChan
        BY <1>1, <3>1 DEF MainConnect, ClientTypeOK
      <3>3. alive' \in [Gen -> BOOLEAN]
        BY <1>1, <3>1 DEF MainConnect, ClientTypeOK
      <3> QED BY <1>1, <3>2, <3>3 DEF MainConnect, ClientTypeOK
    <2>4. HioTypeOK'
      BY <1>1 DEF MainConnect, HioTypeOK, Gen, openIo
    <2>5. SentTypeOK'
      BY <1>1, EventTypes, PostType DEF MainConnect, SentTypeOK
    <2>6. LoopTypeOK'
      BY <1>1 DEF MainConnect, LoopTypeOK
    <2>7. ReqBound' /\ NoChannel' /\ IndexSet'
      BY <1>1 DEF MainConnect, MainTypeOK, LoopTypeOK, ClientTypeOK, ReqBound, NoChannel, IndexSet, Gen
    <2> QED BY <2>1, <2>2, <2>3, <2>4, <2>5, <2>6, <2>7
  <1>2. CASE MainSeesConnected
    <2>1. ClientTypeOK' /\ HioTypeOK' /\ SentTypeOK' /\ WireTypeOK' /\ LoopTypeOK'
      BY <1>2, Frame DEF MainSeesConnected, isConnected
    <2>2. MainTypeOK'
      BY <1>2 DEF MainSeesConnected, isConnected, MainTypeOK
    <2>3. ReqBound' /\ NoChannel' /\ IndexSet'
      BY <1>2 DEF MainSeesConnected, isConnected, MainTypeOK, LoopTypeOK, ClientTypeOK, ReqBound, NoChannel, IndexSet
    <2> QED BY <2>1, <2>2, <2>3
  <1>3. CASE MainSleepsInLoop
    <2>1. MainTypeOK' /\ ClientTypeOK' /\ HioTypeOK' /\ SentTypeOK' /\ WireTypeOK' /\ LoopTypeOK'
      BY <1>3, Frame DEF MainSleepsInLoop, vars
    <2>2. ReqBound' /\ NoChannel' /\ IndexSet'
      BY <1>3 DEF MainSleepsInLoop, vars, MainTypeOK, LoopTypeOK, ClientTypeOK, ReqBound, NoChannel, IndexSet
    <2> QED BY <2>1, <2>2
  <1>4. CASE MainSend
    <2>1. ClientTypeOK' /\ HioTypeOK' /\ SentTypeOK' /\ WireTypeOK' /\ LoopTypeOK'
      BY <1>4, Frame DEF MainSend, SubscribeReturns
    <2>2. MainTypeOK'
      BY <1>4 DEF MainSend, SubscribeReturns, MainTypeOK, ReqBound, ClientTypeOK
    <2>3. ReqBound' /\ NoChannel' /\ IndexSet'
      BY <1>4 DEF MainSend, SubscribeReturns, MainTypeOK, LoopTypeOK, ClientTypeOK, ReqBound, NoChannel, IndexSet
    <2> QED BY <2>1, <2>2, <2>3
  <1>5. CASE MainWrite
    <2>1. ClientTypeOK' /\ WireTypeOK' /\ LoopTypeOK'
      BY <1>5, Frame DEF MainWrite, SubscribeReturns
    <2>2. MainTypeOK'
      BY <1>5 DEF MainWrite, SubscribeReturns, MainTypeOK, ReqBound
    <2>3. HioTypeOK'
      BY <1>5, WriteType, ItemTypes DEF MainWrite, SubscribeReturns, HioTypeOK, Gen, Ids, ReqBound, IndexSet, MainTypeOK, SentTypeOK
    <2>4. SentTypeOK'
      BY <1>5, WriteType, ItemTypes, SMTT(60) DEF MainWrite, SubscribeReturns, SentTypeOK, Gen, Ids, ReqBound, IndexSet, MainTypeOK, HioTypeOK
    <2>5. ReqBound' /\ NoChannel' /\ IndexSet'
      BY <1>5 DEF MainWrite, SubscribeReturns, MainTypeOK, LoopTypeOK, ClientTypeOK, ReqBound, NoChannel, IndexSet
    <2> QED BY <2>1, <2>2, <2>3, <2>4, <2>5
  <1>6. CASE MainDestroy
    <2>1. ClientTypeOK' /\ WireTypeOK' /\ LoopTypeOK'
      BY <1>6, Frame DEF MainDestroy
    <2>2. MainTypeOK'
      BY <1>6 DEF MainDestroy, MainTypeOK
    <2>3. SentTypeOK'
      BY <1>6, EventTypes, PostType DEF MainDestroy, SentTypeOK
    <2>4. HioTypeOK'
      BY <1>6 DEF MainDestroy, HioTypeOK
    <2>5. ReqBound' /\ NoChannel' /\ IndexSet'
      BY <1>6 DEF MainDestroy, MainTypeOK, LoopTypeOK, ClientTypeOK, ReqBound, NoChannel, IndexSet
    <2> QED BY <2>1, <2>2, <2>3, <2>4, <2>5
  <1>7. CASE MainStop
    <2>1. ClientTypeOK' /\ HioTypeOK' /\ WireTypeOK'
      BY <1>7, Frame DEF MainStop, EventLoopStop
    <2>2. MainTypeOK'
      BY <1>7 DEF MainStop, EventLoopStop, MainTypeOK
    <2>3. SentTypeOK'
      BY <1>7, EventTypes, PostType DEF MainStop, EventLoopStop, SentTypeOK
    <2>4. LoopTypeOK'
      BY <1>7 DEF MainStop, EventLoopStop, LoopTypeOK
    <2>5. ReqBound' /\ NoChannel' /\ IndexSet'
      BY <1>7 DEF MainStop, EventLoopStop, MainTypeOK, LoopTypeOK, ClientTypeOK, ReqBound, NoChannel, IndexSet
    <2> QED BY <2>1, <2>2, <2>3, <2>4, <2>5
  <1>8. CASE MainJoin
    <2>1. ClientTypeOK' /\ HioTypeOK' /\ SentTypeOK' /\ WireTypeOK' /\ LoopTypeOK'
      BY <1>8, Frame DEF MainJoin
    <2>2. MainTypeOK'
      BY <1>8 DEF MainJoin, MainTypeOK
    <2>3. ReqBound' /\ NoChannel' /\ IndexSet'
      BY <1>8 DEF MainJoin, MainTypeOK, LoopTypeOK, ClientTypeOK, ReqBound, NoChannel, IndexSet
    <2> QED BY <2>1, <2>2, <2>3
  <1> QED BY <1>1, <1>2, <1>3, <1>4, <1>5, <1>6, <1>7, <1>8 DEF Main

\* The steps inside onConnection and onMessage.
LEMMA CallbackType == ASSUME TypeInv, Callback
                      PROVE  TypeInv'
  <1> USE ClientAssumption DEF TypeInv, TypeOK, mainVars, wireVars, hioVars, loopVars
  <1>1. CASE LoopOnConnection
    <2>1. MainTypeOK' /\ ClientTypeOK' /\ WireTypeOK'
      BY <1>1, Frame DEF LoopOnConnection
    <2>2. HioTypeOK'
      BY <1>1, WriteType, ItemTypes DEF LoopOnConnection, HioTypeOK, Gen, IndexSet, LoopTypeOK, SentTypeOK
    <2>3. SentTypeOK'
      BY <1>1, WriteType, ItemTypes, SMTT(60) DEF LoopOnConnection, SentTypeOK, Gen, IndexSet, LoopTypeOK, HioTypeOK
    <2>4. LoopTypeOK'
      BY <1>1 DEF LoopOnConnection, LoopTypeOK
    <2>5. ReqBound' /\ NoChannel' /\ IndexSet'
      BY <1>1 DEF LoopOnConnection, MainTypeOK, LoopTypeOK, ClientTypeOK, ReqBound, NoChannel, IndexSet
    <2> QED BY <2>1, <2>2, <2>3, <2>4, <2>5
  <1>2. CASE LoopUpgradeRefused
    <2>1. MainTypeOK' /\ ClientTypeOK' /\ SentTypeOK' /\ WireTypeOK'
      BY <1>2, Frame DEF LoopUpgradeRefused, InUpgrade, ReturnToLoop
    <2>2. HioTypeOK'
      BY <1>2, CloseType DEF LoopUpgradeRefused, InUpgrade, ReturnToLoop, HioTypeOK
    <2>3. LoopTypeOK'
      BY <1>2 DEF LoopUpgradeRefused, InUpgrade, ReturnToLoop, LoopTypeOK
    <2>4. ReqBound' /\ NoChannel' /\ IndexSet'
      BY <1>2 DEF LoopUpgradeRefused, InUpgrade, ReturnToLoop, MainTypeOK, LoopTypeOK, ClientTypeOK, ReqBound, NoChannel, IndexSet
    <2> QED BY <2>1, <2>2, <2>3, <2>4
  <1>3. CASE LoopUpgraded
    <2>1. MainTypeOK' /\ SentTypeOK' /\ WireTypeOK'
      BY <1>3, Frame DEF LoopUpgraded, InUpgrade
    <2>2. HioTypeOK'
      BY <1>3 DEF LoopUpgraded, InUpgrade, HioTypeOK
    <2>3. ClientTypeOK'
      BY <1>3 DEF LoopUpgraded, InUpgrade, ClientTypeOK, PingCap
    <2>4. LoopTypeOK'
      BY <1>3 DEF LoopUpgraded, InUpgrade, LoopTypeOK, IndexSet
    <2>5. ReqBound' /\ NoChannel' /\ IndexSet'
      BY <1>3 DEF LoopUpgraded, InUpgrade, MainTypeOK, LoopTypeOK, ClientTypeOK, ReqBound, NoChannel, IndexSet
    <2> QED BY <2>1, <2>2, <2>3, <2>4, <2>5
  <1>4. CASE LoopRedirect
    <2>1. MainTypeOK' /\ HioTypeOK' /\ SentTypeOK' /\ WireTypeOK'
      BY <1>4, Frame DEF LoopRedirect, InUpgrade
    <2>2. ClientTypeOK'
      BY <1>4 DEF LoopRedirect, InUpgrade, ClientTypeOK
    <2>3. LoopTypeOK'
      BY <1>4 DEF LoopRedirect, InUpgrade, LoopTypeOK
    <2>4. ReqBound' /\ NoChannel' /\ IndexSet'
      BY <1>4 DEF LoopRedirect, InUpgrade, MainTypeOK, LoopTypeOK, ClientTypeOK, ReqBound, NoChannel, IndexSet
    <2> QED BY <2>1, <2>2, <2>3, <2>4
  <1>5. CASE LoopCloseOld
    <2>1. MainTypeOK' /\ ClientTypeOK' /\ SentTypeOK' /\ WireTypeOK'
      BY <1>5, Frame DEF LoopCloseOld
    <2>2. HioTypeOK'
      BY <1>5, CloseType DEF LoopCloseOld, HioTypeOK, hioVars
    <2>3. LoopTypeOK'
      BY <1>5 DEF LoopCloseOld, LoopTypeOK
    <2>4. ReqBound' /\ NoChannel' /\ IndexSet'
      BY <1>5 DEF LoopCloseOld, MainTypeOK, LoopTypeOK, ClientTypeOK, ReqBound, NoChannel, IndexSet
    <2> QED BY <2>1, <2>2, <2>3, <2>4
  <1>6. CASE LoopReopenFails
    <2>1. MainTypeOK' /\ ClientTypeOK' /\ SentTypeOK' /\ WireTypeOK'
      BY <1>6, Frame DEF LoopReopenFails, ReturnToLoop
    <2>2. HioTypeOK'
      BY <1>6 DEF LoopReopenFails, ReturnToLoop, HioTypeOK
    <2>3. LoopTypeOK'
      BY <1>6 DEF LoopReopenFails, ReturnToLoop, LoopTypeOK
    <2>4. ReqBound' /\ NoChannel' /\ IndexSet'
      BY <1>6 DEF LoopReopenFails, ReturnToLoop, MainTypeOK, LoopTypeOK, ClientTypeOK, ReqBound, NoChannel, IndexSet
    <2> QED BY <2>1, <2>2, <2>3, <2>4
  <1>7. CASE LoopReopen
    <2>1. MainTypeOK' /\ WireTypeOK'
      BY <1>7, Frame DEF LoopReopen, ReturnToLoop
    <2>2. ClientTypeOK'
      <3>1. channel + 1 \in 0 .. MaxChan
        BY <1>7 DEF LoopReopen, ClientTypeOK
      <3>2. alive' \in [Gen -> BOOLEAN]
        BY <1>7 DEF LoopReopen, ClientTypeOK
      <3>3. notify' \in [Gen -> BOOLEAN]
        BY <1>7 DEF LoopReopen, ClientTypeOK
      <3> QED BY <1>7, <3>1, <3>2, <3>3 DEF LoopReopen, ClientTypeOK
    <2>3. HioTypeOK'
      BY <1>7 DEF LoopReopen, ReturnToLoop, HioTypeOK, Gen, openIo, ClientTypeOK
    <2>4. SentTypeOK'
      <3>1. channel + 1 \in Gen
        BY <1>7 DEF LoopReopen, ClientTypeOK, Gen
      <3>2. PostedClose(channel + 1) \in Events
        BY <3>1, EventTypes
      <3>3. posted' \in Seq(Events)
        BY <1>7, <3>2, PostType DEF LoopReopen, SentTypeOK
      <3> QED BY <1>7, <3>3 DEF LoopReopen, SentTypeOK
    <2>5. LoopTypeOK'
      BY <1>7 DEF LoopReopen, ReturnToLoop, LoopTypeOK
    <2>6. ReqBound' /\ NoChannel' /\ IndexSet'
      BY <1>7 DEF LoopReopen, ReturnToLoop, MainTypeOK, LoopTypeOK, ClientTypeOK, ReqBound, NoChannel, IndexSet
    <2> QED BY <2>1, <2>2, <2>3, <2>4, <2>5, <2>6
  <1>8. CASE LoopReopenCrashes
    <2>1. ClientTypeOK' /\ HioTypeOK' /\ SentTypeOK' /\ WireTypeOK'
      BY <1>8, Frame DEF LoopReopenCrashes
    <2>2. MainTypeOK'
      BY <1>8 DEF LoopReopenCrashes, MainTypeOK
    <2>3. LoopTypeOK'
      BY <1>8 DEF LoopReopenCrashes, LoopTypeOK
    <2>4. ReqBound' /\ NoChannel' /\ IndexSet'
      BY <1>8 DEF LoopReopenCrashes, MainTypeOK, LoopTypeOK, ClientTypeOK, ReqBound, NoChannel, IndexSet
    <2> QED BY <2>1, <2>2, <2>3, <2>4
  <1>9. CASE LoopDropBuffer
    <2>1. MainTypeOK' /\ ClientTypeOK' /\ HioTypeOK' /\ SentTypeOK' /\ WireTypeOK'
      BY <1>9, Frame DEF LoopDropBuffer, ReturnToLoop
    <2>2. LoopTypeOK'
      BY <1>9 DEF LoopDropBuffer, ReturnToLoop, LoopTypeOK
    <2>3. ReqBound' /\ NoChannel' /\ IndexSet'
      BY <1>9 DEF LoopDropBuffer, ReturnToLoop, MainTypeOK, LoopTypeOK, ClientTypeOK, ReqBound, NoChannel, IndexSet
    <2> QED BY <2>1, <2>2, <2>3
  <1>10. CASE LoopFeedParser
    <2>1. MainTypeOK' /\ ClientTypeOK' /\ HioTypeOK' /\ SentTypeOK' /\ WireTypeOK'
      BY <1>10, Frame DEF LoopFeedParser
    <2>2. LoopTypeOK'
      BY <1>10 DEF LoopFeedParser, LoopTypeOK
    <2>3. ReqBound' /\ NoChannel' /\ IndexSet'
      BY <1>10 DEF LoopFeedParser, MainTypeOK, LoopTypeOK, ClientTypeOK, ReqBound, NoChannel, IndexSet
    <2> QED BY <2>1, <2>2, <2>3
  <1>11. CASE LoopOnText
    <2>1. MainTypeOK' /\ ClientTypeOK' /\ SentTypeOK' /\ WireTypeOK'
      BY <1>11, Frame DEF LoopOnText, NextFrame
    <2>2. HioTypeOK'
      BY <1>11 DEF LoopOnText, NextFrame, HioTypeOK
    <2>3. LoopTypeOK'
      BY <1>11 DEF LoopOnText, NextFrame, LoopTypeOK, IndexSet
    <2>4. ReqBound' /\ NoChannel' /\ IndexSet'
      BY <1>11 DEF LoopOnText, NextFrame, MainTypeOK, LoopTypeOK, ClientTypeOK, ReqBound, NoChannel, IndexSet
    <2> QED BY <2>1, <2>2, <2>3, <2>4
  <1>12. CASE LoopOnPing
    <2>1. MainTypeOK' /\ ClientTypeOK' /\ WireTypeOK'
      BY <1>12, Frame DEF LoopOnPing, NextFrame
    <2>2. HioTypeOK'
      BY <1>12, WriteType, ItemTypes, SMTT(60) DEF LoopOnPing, NextFrame, HioTypeOK, Gen, NoChannel, ClientTypeOK, SentTypeOK, WriteControl
    <2>3. SentTypeOK'
      BY <1>12, WriteType, ItemTypes, SMTT(60) DEF LoopOnPing, NextFrame, SentTypeOK, Gen, NoChannel, ClientTypeOK, HioTypeOK, WriteControl
    <2>4. LoopTypeOK'
      BY <1>12 DEF LoopOnPing, NextFrame, LoopTypeOK, IndexSet
    <2>5. ReqBound' /\ NoChannel' /\ IndexSet'
      BY <1>12 DEF LoopOnPing, NextFrame, MainTypeOK, LoopTypeOK, ClientTypeOK, ReqBound, NoChannel, IndexSet
    <2> QED BY <2>1, <2>2, <2>3, <2>4, <2>5
  <1>13. CASE LoopOnPong
    <2>1. MainTypeOK' /\ HioTypeOK' /\ SentTypeOK' /\ WireTypeOK'
      BY <1>13, Frame DEF LoopOnPong, NextFrame
    <2>2. ClientTypeOK'
      BY <1>13 DEF LoopOnPong, NextFrame, ClientTypeOK, PingCap
    <2>3. LoopTypeOK'
      BY <1>13 DEF LoopOnPong, NextFrame, LoopTypeOK, IndexSet
    <2>4. ReqBound' /\ NoChannel' /\ IndexSet'
      BY <1>13 DEF LoopOnPong, NextFrame, MainTypeOK, LoopTypeOK, ClientTypeOK, ReqBound, NoChannel, IndexSet
    <2> QED BY <2>1, <2>2, <2>3, <2>4
  <1>14. CASE LoopOnClose
    <2>1. MainTypeOK' /\ ClientTypeOK' /\ SentTypeOK' /\ WireTypeOK'
      BY <1>14, Frame DEF LoopOnClose, NextFrame
    <2>2. HioTypeOK'
      BY <1>14, CloseType DEF LoopOnClose, NextFrame, HioTypeOK
    <2>3. LoopTypeOK'
      BY <1>14 DEF LoopOnClose, NextFrame, LoopTypeOK, IndexSet
    <2>4. ReqBound' /\ NoChannel' /\ IndexSet'
      BY <1>14 DEF LoopOnClose, NextFrame, MainTypeOK, LoopTypeOK, ClientTypeOK, ReqBound, NoChannel, IndexSet
    <2> QED BY <2>1, <2>2, <2>3, <2>4
  <1> QED BY <1>1, <1>2, <1>3, <1>4, <1>5, <1>6, <1>7, <1>8, <1>9, <1>10, <1>11, <1>12, <1>13, <1>14 DEF Callback

\* The events that the loop takes up, and its end.
LEMMA LoopType == ASSUME TypeInv, Loop, ~Callback
                  PROVE  TypeInv'
  <1> USE ClientAssumption DEF TypeInv, TypeOK, mainVars, wireVars, hioVars, loopVars
  <1>1. CASE LoopStartConnect
    <2>1. MainTypeOK' /\ WireTypeOK'
      BY <1>1, Frame DEF LoopStartConnect, TakePosted, LoopFree
    <2>2. ClientTypeOK'
      BY <1>1 DEF LoopStartConnect, TakePosted, LoopFree, ClientTypeOK
    <2>3. HioTypeOK'
      BY <1>1 DEF LoopStartConnect, TakePosted, LoopFree, HioTypeOK, Gen, openIo
    <2>4. SentTypeOK'
      <3>1. PostedClose(1) \in Events
        BY EventTypes DEF Gen
      <3>2. posted' \in Seq(Events)
        BY <1>1, <3>1, PostType DEF LoopStartConnect, TakePosted, SentTypeOK
      <3> QED BY <1>1, <3>2 DEF LoopStartConnect, SentTypeOK
    <2>5. LoopTypeOK'
      BY <1>1 DEF LoopStartConnect, TakePosted, LoopFree, LoopTypeOK
    <2>6. ReqBound' /\ NoChannel' /\ IndexSet'
      BY <1>1 DEF LoopStartConnect, TakePosted, LoopFree, MainTypeOK, LoopTypeOK, ClientTypeOK, ReqBound, NoChannel, IndexSet
    <2> QED BY <2>1, <2>2, <2>3, <2>4, <2>5, <2>6
  <1>2. ASSUME NEW g \in Gen, LoopTcpConnected(g) PROVE TypeInv'
    <2>1. MainTypeOK' /\ ClientTypeOK' /\ SentTypeOK' /\ WireTypeOK' /\ LoopTypeOK'
      BY <1>2, Frame DEF LoopTcpConnected, LoopFree
    <2>2. HioTypeOK'
      BY <1>2 DEF LoopTcpConnected, LoopFree, HioTypeOK, Gen, openIo
    <2>3. ReqBound' /\ NoChannel' /\ IndexSet'
      BY <1>2 DEF LoopTcpConnected, LoopFree, MainTypeOK, LoopTypeOK, ClientTypeOK, ReqBound, NoChannel, IndexSet
    <2> QED BY <2>1, <2>2, <2>3
  <1>3. ASSUME NEW g \in Gen, LoopHandshakeDone(g) PROVE TypeInv'
    <2>1. MainTypeOK' /\ ClientTypeOK' /\ SentTypeOK' /\ WireTypeOK'
      BY <1>3, Frame DEF LoopHandshakeDone, LoopFree
    <2>2. HioTypeOK'
      BY <1>3 DEF LoopHandshakeDone, LoopFree, HioTypeOK, Gen, openIo
    <2>3. LoopTypeOK'
      BY <1>3 DEF LoopHandshakeDone, LoopFree, LoopTypeOK, Gen
    <2>4. ReqBound' /\ NoChannel' /\ IndexSet'
      BY <1>3 DEF LoopHandshakeDone, LoopFree, MainTypeOK, LoopTypeOK, ClientTypeOK, ReqBound, NoChannel, IndexSet, Gen
    <2> QED BY <2>1, <2>2, <2>3, <2>4
  <1>4. ASSUME NEW g \in Gen, LoopConnectFails(g) PROVE TypeInv'
    <2>1. MainTypeOK' /\ ClientTypeOK' /\ SentTypeOK' /\ WireTypeOK' /\ LoopTypeOK'
      BY <1>4, Frame DEF LoopConnectFails
    <2>2. HioTypeOK'
      BY <1>4, CloseNowType DEF LoopConnectFails, HioTypeOK
    <2>3. ReqBound' /\ NoChannel' /\ IndexSet'
      BY <1>4 DEF LoopConnectFails, MainTypeOK, LoopTypeOK, ClientTypeOK, ReqBound, NoChannel, IndexSet, LoopFree
    <2> QED BY <2>1, <2>2, <2>3
  <1>5. ASSUME NEW g \in Gen, LoopRead(g) PROVE TypeInv'
    <2>1. MainTypeOK' /\ ClientTypeOK' /\ HioTypeOK' /\ SentTypeOK'
      BY <1>5, Frame DEF LoopRead, LoopFree
    <2>2. WireTypeOK'
      BY <1>5 DEF LoopRead, LoopFree, WireTypeOK
    <2>3. LoopTypeOK'
      BY <1>5 DEF LoopRead, LoopFree, LoopTypeOK, WireTypeOK, Gen
    <2>4. ReqBound' /\ NoChannel' /\ IndexSet'
      <3>1. inq[g] \in Seq(HttpAndFrames)
        BY DEF WireTypeOK
      <3>2. PICK n \in 1 .. Len(inq[g]) : chunk' = SubSeq(inq[g], 1, n)
        BY <1>5 DEF LoopRead
      <3>3. Len(chunk') = n
        BY <3>1, <3>2
      <3>4. chunk' # << >>
        BY <3>3
      <3> QED BY <1>5, <3>4 DEF LoopRead, LoopFree, ClientTypeOK, ReqBound, NoChannel, IndexSet
    <2> QED BY <2>1, <2>2, <2>3, <2>4
  <1>6. ASSUME NEW g \in Gen, LoopHangup(g) PROVE TypeInv'
    <2>1. MainTypeOK' /\ ClientTypeOK' /\ SentTypeOK' /\ WireTypeOK' /\ LoopTypeOK'
      BY <1>6, Frame DEF LoopHangup
    <2>2. HioTypeOK'
      BY <1>6, CloseType DEF LoopHangup, HioTypeOK
    <2>3. ReqBound' /\ NoChannel' /\ IndexSet'
      BY <1>6 DEF LoopHangup, MainTypeOK, LoopTypeOK, ClientTypeOK, ReqBound, NoChannel, IndexSet, LoopFree
    <2> QED BY <2>1, <2>2, <2>3
  <1>7. ASSUME NEW g \in Gen, LoopIoError(g) PROVE TypeInv'
    <2>1. MainTypeOK' /\ ClientTypeOK' /\ SentTypeOK' /\ WireTypeOK' /\ LoopTypeOK'
      BY <1>7, Frame DEF LoopIoError
    <2>2. HioTypeOK'
      BY <1>7, CloseNowType DEF LoopIoError, HioTypeOK
    <2>3. ReqBound' /\ NoChannel' /\ IndexSet'
      BY <1>7 DEF LoopIoError, MainTypeOK, LoopTypeOK, ClientTypeOK, ReqBound, NoChannel, IndexSet, LoopFree
    <2> QED BY <2>1, <2>2, <2>3
  <1>8. ASSUME NEW g \in Gen, LoopDrain(g) PROVE TypeInv'
    <2>1. MainTypeOK' /\ ClientTypeOK' /\ WireTypeOK' /\ LoopTypeOK'
      BY <1>8, Frame DEF LoopDrain
    <2>2. HioTypeOK'
      BY <1>8, CloseNowType, ItemTypes DEF LoopDrain, HioTypeOK
    <2>3. SentTypeOK'
      BY <1>8 DEF LoopDrain, SentTypeOK, ToSocket, HioTypeOK, Items
    <2>4. ReqBound' /\ NoChannel' /\ IndexSet'
      BY <1>8 DEF LoopDrain, MainTypeOK, LoopTypeOK, ClientTypeOK, ReqBound, NoChannel, IndexSet, LoopFree
    <2> QED BY <2>1, <2>2, <2>3, <2>4
  <1>9. ASSUME NEW g \in Gen, LoopCloseTimeout(g) PROVE TypeInv'
    <2>1. MainTypeOK' /\ ClientTypeOK' /\ SentTypeOK' /\ WireTypeOK' /\ LoopTypeOK'
      BY <1>9, Frame DEF LoopCloseTimeout
    <2>2. HioTypeOK'
      BY <1>9, CloseNowType DEF LoopCloseTimeout, HioTypeOK
    <2>3. ReqBound' /\ NoChannel' /\ IndexSet'
      BY <1>9 DEF LoopCloseTimeout, MainTypeOK, LoopTypeOK, ClientTypeOK, ReqBound, NoChannel, IndexSet, LoopFree
    <2> QED BY <2>1, <2>2, <2>3
  <1>10. CASE LoopPostedClose
    <2>1. MainTypeOK' /\ ClientTypeOK' /\ WireTypeOK' /\ LoopTypeOK'
      BY <1>10, Frame DEF LoopPostedClose, TakePosted
    <2>2. HioTypeOK'
      BY <1>10, CloseNowType DEF LoopPostedClose, TakePosted, HioTypeOK, hioVars
    <2>3. SentTypeOK'
      BY <1>10 DEF LoopPostedClose, TakePosted, SentTypeOK
    <2>4. ReqBound' /\ NoChannel' /\ IndexSet'
      BY <1>10 DEF LoopPostedClose, TakePosted, MainTypeOK, LoopTypeOK, ClientTypeOK, ReqBound, NoChannel, IndexSet, LoopFree
    <2> QED BY <2>1, <2>2, <2>3, <2>4
  <1>11. CASE LoopPostedClosesocket
    <2>1. MainTypeOK' /\ ClientTypeOK' /\ WireTypeOK' /\ LoopTypeOK'
      BY <1>11, Frame DEF LoopPostedClosesocket, TakePosted
    <2>2. HioTypeOK'
      BY <1>11, CloseType DEF LoopPostedClosesocket, TakePosted, HioTypeOK
    <2>3. SentTypeOK'
      BY <1>11 DEF LoopPostedClosesocket, TakePosted, SentTypeOK
    <2>4. ReqBound' /\ NoChannel' /\ IndexSet'
      BY <1>11 DEF LoopPostedClosesocket, TakePosted, MainTypeOK, LoopTypeOK, ClientTypeOK, ReqBound, NoChannel, IndexSet, LoopFree
    <2> QED BY <2>1, <2>2, <2>3, <2>4
  <1>12. ASSUME NEW g \in Gen, LoopHeartbeat(g) PROVE TypeInv'
    <2>1. MainTypeOK' /\ WireTypeOK' /\ LoopTypeOK'
      BY <1>12, Frame DEF LoopHeartbeat
    <2>2. HioTypeOK'
      <3>1. CASE GivesUp
        BY <1>12, <3>1, CloseType DEF LoopHeartbeat
      <3>2. CASE ~GivesUp
        <4>1. channel \in Gen
          BY <1>12 DEF LoopHeartbeat, NoChannel, ClientTypeOK, Gen
        <4>2. wq' \in [Gen -> Items]
          BY <1>12, <3>2, <4>1, WriteType, ItemTypes
          DEF LoopHeartbeat, WriteControl, HioTypeOK
        <4> QED BY <1>12, <3>2, <4>2 DEF LoopHeartbeat, HioTypeOK
      <3> QED BY <3>1, <3>2
    <2>3. SentTypeOK'
      BY <1>12, WriteType, ItemTypes, SMTT(60) DEF LoopHeartbeat, SentTypeOK, Gen, NoChannel, ClientTypeOK, HioTypeOK, WriteControl
    <2>4. ClientTypeOK'
      BY <1>12 DEF LoopHeartbeat, ClientTypeOK, PingCap
    <2>5. ReqBound' /\ NoChannel' /\ IndexSet'
      BY <1>12 DEF LoopHeartbeat, MainTypeOK, LoopTypeOK, ClientTypeOK, ReqBound, NoChannel, IndexSet, LoopFree
    <2> QED BY <2>1, <2>2, <2>3, <2>4, <2>5
  <1>13. CASE LoopLeaves
    <2>1. MainTypeOK' /\ ClientTypeOK' /\ HioTypeOK' /\ SentTypeOK' /\ WireTypeOK'
      BY <1>13, Frame DEF LoopLeaves
    <2>2. LoopTypeOK'
      BY <1>13 DEF LoopLeaves, LoopTypeOK
    <2>3. ReqBound' /\ NoChannel' /\ IndexSet'
      BY <1>13 DEF LoopLeaves, MainTypeOK, LoopTypeOK, ClientTypeOK, ReqBound, NoChannel, IndexSet
    <2> QED BY <2>1, <2>2, <2>3
  <1>14. ASSUME NEW g \in Gen, LoopFreesIo(g) PROVE TypeInv'
    <2>1. MainTypeOK' /\ ClientTypeOK' /\ SentTypeOK' /\ WireTypeOK' /\ LoopTypeOK'
      BY <1>14, Frame DEF LoopFreesIo
    <2>2. HioTypeOK'
      BY <1>14, CloseNowType DEF LoopFreesIo, HioTypeOK, Gen, openIo
    <2>3. ReqBound' /\ NoChannel' /\ IndexSet'
      BY <1>14 DEF LoopFreesIo, MainTypeOK, LoopTypeOK, ClientTypeOK, ReqBound, NoChannel, IndexSet
    <2> QED BY <2>1, <2>2, <2>3
  <1>15. CASE LoopStops
    <2>1. MainTypeOK' /\ ClientTypeOK' /\ HioTypeOK' /\ SentTypeOK' /\ WireTypeOK'
      BY <1>15, Frame DEF LoopStops
    <2>2. LoopTypeOK'
      BY <1>15 DEF LoopStops, LoopTypeOK
    <2>3. ReqBound' /\ NoChannel' /\ IndexSet'
      BY <1>15 DEF LoopStops, MainTypeOK, LoopTypeOK, ClientTypeOK, ReqBound, NoChannel, IndexSet
    <2> QED BY <2>1, <2>2, <2>3
  <1> QED BY <1>1, <1>2, <1>3, <1>4, <1>5, <1>6, <1>7, <1>8, <1>9, <1>10, <1>11, <1>12, <1>13, <1>14, <1>15 DEF Loop

\* The server touches the wire only.
LEMMA ServerType == ASSUME TypeInv, Server
                    PROVE  TypeInv'
  <1> USE ClientAssumption DEF TypeInv, TypeOK, mainVars, wireVars, hioVars, loopVars
  <1>1. ASSUME NEW g \in Gen, ServerResponds(g) PROVE TypeInv'
    <2>1. MainTypeOK' /\ ClientTypeOK' /\ HioTypeOK' /\ SentTypeOK' /\ LoopTypeOK'
      BY <1>1, Frame DEF ServerResponds
    <2>2. WireTypeOK'
      BY <1>1 DEF ServerResponds, WireTypeOK, HttpAndFrames, Response, Refusal
    <2>3. ReqBound' /\ NoChannel' /\ IndexSet'
      BY <1>1 DEF ServerResponds, MainTypeOK, LoopTypeOK, ClientTypeOK, ReqBound, NoChannel, IndexSet
    <2> QED BY <2>1, <2>2, <2>3
  <1>2. ASSUME NEW g \in Gen, ServerSends(g) PROVE TypeInv'
    <2>1. MainTypeOK' /\ ClientTypeOK' /\ HioTypeOK' /\ SentTypeOK' /\ LoopTypeOK'
      BY <1>2, Frame DEF ServerSends
    <2>2. WireTypeOK'
      BY <1>2 DEF ServerSends, WireTypeOK, HttpAndFrames
    <2>3. ReqBound' /\ NoChannel' /\ IndexSet'
      BY <1>2 DEF ServerSends, MainTypeOK, LoopTypeOK, ClientTypeOK, ReqBound, NoChannel, IndexSet
    <2> QED BY <2>1, <2>2, <2>3
  <1>3. ASSUME NEW g \in Gen, ServerHangsUp(g) PROVE TypeInv'
    <2>1. MainTypeOK' /\ ClientTypeOK' /\ HioTypeOK' /\ SentTypeOK' /\ LoopTypeOK'
      BY <1>3, Frame DEF ServerHangsUp
    <2>2. WireTypeOK'
      BY <1>3 DEF ServerHangsUp, WireTypeOK
    <2>3. ReqBound' /\ NoChannel' /\ IndexSet'
      BY <1>3 DEF ServerHangsUp, MainTypeOK, LoopTypeOK, ClientTypeOK, ReqBound, NoChannel, IndexSet
    <2> QED BY <2>1, <2>2, <2>3
  <1> QED BY <1>1, <1>2, <1>3 DEF Server

\* Every variable has its type at the start, and every step keeps it.
LEMMA InitType == Init => TypeInv
  BY ClientAssumption, ItemTypes
  DEF Init, TypeInv, TypeOK, MainTypeOK, ClientTypeOK, HioTypeOK, SentTypeOK,
      WireTypeOK, LoopTypeOK, ReqBound, NoChannel, IndexSet, Items, PingCap, Gen

LEMMA StepType == TypeInv /\ [Next]_vars => TypeInv'
  <1> SUFFICES ASSUME TypeInv, [Next]_vars PROVE TypeInv'
    OBVIOUS
  <1>1. CASE Main
    BY <1>1, MainType
  <1>2. CASE Loop
    BY <1>2, CallbackType, LoopType
  <1>3. CASE Server
    BY <1>3, ServerType
  <1>4. CASE UNCHANGED vars
    BY <1>4, Frame
    DEF vars, mainVars, wireVars, hioVars, loopVars, TypeInv, TypeOK, ReqBound,
        NoChannel, IndexSet
  <1> QED BY <1>1, <1>2, <1>3, <1>4 DEF Next, Exited

\* The types of every variable of the client, main and the server are kept, for
\* every number of subscriptions, redirects and frames.
THEOREM TypeCorrect == Spec => []TypeOK
  <1>1. TypeInv => TypeOK
    BY DEF TypeInv
  <1> QED BY <1>1, InitType, StepType, PTL DEF Spec

-----------------------------------------------------------------------------
(* The inductive invariant behind PingBudget.  The count of unanswered      *)
(* PINGs is kept in step with ping_cnt, and once ping_cnt is past 3 the     *)
(* channel is not open and nothing opens it again: a client that has been   *)
(* upgraded never connects anew.                                            *)

\* The socket of g is not connected yet.
Fresh(g) == io[g] \in {"idle", "connecting", "tls"}

NoneFresh == \A g \in Gen : ~Fresh(g)

IsStart(i) == posted[i] = <<"startConnect", 1>>

\* The functor that starts the first connection is in the queue.
StartPosted == \E i \in DOMAIN posted : IsStart(i)

Upgraded == ping_cnt > 0 \/ \E g \in Gen : heartbeat[g]

\* Before connect there is nothing at all.
Blank == pc = "connect" => /\ channel = 0 /\ ping_cnt = 0 /\ state = "WS_CLOSED"
                           /\ \A g \in Gen : ~closing[g]

\* A socket that connects, and a Channel that lives, are the current ones.
CurrentOnly == \A g \in Gen : Fresh(g) \/ alive[g] => g = channel

\* startConnect finds the socket that connect created.
StartOnIdle ==
    loop \in {"running", "stopping"} => io[1] = "idle" /\ ~closing[1]

StartBeforeAll == StartPosted => /\ StartOnIdle
                                 /\ ~Upgraded /\ state # "WS_UPGRADING"
                                 /\ lpc = "idle"

StartIsFirst == \A i \in DOMAIN posted : IsStart(i) => i = 1

\* While a callback runs, and until the server's response is handled, no socket
\* is connecting.
BusyNotFresh ==
    lpc # "idle" \/ state = "WS_UPGRADING" => NoneFresh /\ channel # 0

\* After the upgrade no callback that connects or redirects is left to run.
UpgradedForGood ==
    Upgraded => /\ NoneFresh /\ channel # 0
                /\ state \in {"WS_OPENED", "WS_CLOSED"}
                /\ lpc \in {"idle", "onMessage", "frames"}

\* Past the budget the channel is not open, so that no PING is written.
SpentNotOpen == ping_cnt = PingCap => ~isOpened(channel)

Counted == unanswered <= ping_cnt /\ unanswered <= 3

BudgetInv == /\ Blank /\ CurrentOnly /\ StartBeforeAll /\ StartIsFirst
             /\ BusyNotFresh /\ UpgradedForGood /\ SpentNotOpen /\ Counted

HeartbeatInv == TypeInv /\ BudgetInv

(* Most steps are calm: they open nothing, start no timer, add no functor   *)
(* that connects, and move no callback to where it may connect.             *)

\* A step of the hios that only closes.
Downward == /\ \A g \in Gen : Fresh(g)' => Fresh(g)
            /\ \A g \in Gen : heartbeat'[g] => heartbeat[g]
            /\ \A g \in Gen : isOpened(g)' => isOpened(g)
            /\ state' \in {state, "WS_CLOSED"}

NoNewStart == \A i \in DOMAIN posted' : IsStart(i)' => i \in DOMAIN posted /\ IsStart(i)

Calm == /\ UNCHANGED <<channel, alive, ping_cnt, unanswered>>
        /\ Downward
        /\ NoNewStart
        /\ StartPosted' => StartOnIdle'
        /\ pc' = "connect" => UNCHANGED <<pc, closing>>
        /\ lpc' # "idle" => lpc # "idle"
        /\ Upgraded => lpc' \in {"idle", "onMessage", "frames"}

\* A calm step keeps every part of the invariant.
LEMMA CalmKeeps == ASSUME HeartbeatInv, TypeInv', Calm
                   PROVE  BudgetInv'
  <1> USE DEF HeartbeatInv, BudgetInv, Calm
  <1>1. Upgraded' => Upgraded
    BY DEF Upgraded, Downward
  <1>2. NoneFresh => NoneFresh'
    BY DEF NoneFresh, Downward
  <1>3. StartPosted' => StartPosted
    BY DEF StartPosted, NoNewStart
  <1>4. Blank'
    BY DEF Blank, Downward
  <1>5. CurrentOnly'
    BY DEF CurrentOnly, Downward
  <1>6. StartBeforeAll'
    BY <1>1, <1>3 DEF StartBeforeAll, Downward
  <1>7. StartIsFirst'
    BY DEF StartIsFirst, NoNewStart
  <1>8. BusyNotFresh'
    BY <1>2 DEF BusyNotFresh, Downward
  <1>9. UpgradedForGood'
    BY <1>1, <1>2 DEF UpgradedForGood, Downward
  <1>10. SpentNotOpen'
    <2>1. CASE channel = 0
      BY <2>1 DEF SpentNotOpen, TypeInv, NoChannel, TypeOK, ClientTypeOK, UpgradedForGood, Upgraded, PingCap
    <2>2. CASE channel \in Gen
      BY <2>2 DEF SpentNotOpen, Downward
    <2> QED BY <2>1, <2>2 DEF TypeInv, TypeOK, ClientTypeOK, Gen
  <1>11. Counted'
    BY DEF Counted
  <1> QED BY <1>4, <1>5, <1>6, <1>7, <1>8, <1>9, <1>10, <1>11

\* Closing, put off or not, opens nothing.
LEMMA QuietIsDownward == ASSUME UNCHANGED <<io, status, heartbeat, state>>
                         PROVE  Downward
  BY DEF Downward, Fresh, isOpened

LEMMA CloseNowIsDownward == ASSUME HioTypeOK, NEW h \in Gen, CloseNow(h)
                            PROVE  Downward
  <1>1. \A g \in Gen : Fresh(g)' => Fresh(g)
    BY DEF HioTypeOK, CloseNow, Fresh
  <1>2. \A g \in Gen : heartbeat'[g] => heartbeat[g]
    BY DEF HioTypeOK, CloseNow, close_timers
  <1>3. \A g \in Gen : isOpened(g)' => isOpened(g)
    BY DEF HioTypeOK, CloseNow, isOpened, openIo, on_close
  <1>4. state' \in {state, "WS_CLOSED"}
    BY DEF CloseNow, on_close
  <1> QED BY <1>1, <1>2, <1>3, <1>4 DEF Downward

LEMMA CloseIsDownward ==
    ASSUME HioTypeOK, NEW h \in Gen, hio_close(h) \/ ChannelClose(h)
    PROVE  Downward
  <1>1. CASE UNCHANGED hioVars
    BY <1>1, QuietIsDownward DEF hioVars
  <1>2. CASE CloseNow(h)
    BY <1>2, CloseNowIsDownward
  <1>3. CASE CloseLater(h) /\ UNCHANGED status
    BY <1>3, QuietIsDownward DEF CloseLater
  <1>4. CASE CloseLater(h) /\ status' = [status EXCEPT ![h] = "CLOSED"]
    BY <1>4 DEF CloseLater, HioTypeOK, Downward, Fresh, isOpened
  <1> QED BY <1>1, <1>2, <1>3, <1>4 DEF hio_close, ChannelClose

\* A channel that Channel::close has been called on is not open.
LEMMA ClosedIsNotOpen == ASSUME HioTypeOK, NEW h \in Gen, ChannelClose(h)
                         PROVE  ~isOpened(h)'
  <1>1. CASE ~isOpened(h)
    BY <1>1 DEF ChannelClose, hioVars, isOpened
  <1>2. CASE isOpened(h)
    BY <1>2 DEF ChannelClose, CloseNow, CloseLater, on_close, HioTypeOK, isOpened
  <1> QED BY <1>1, <1>2

\* Posting a close, or closesocket, adds no functor that connects.
LEMMA AppendStart ==
    ASSUME posted \in Seq(Events), NEW e \in Events \ {<<"startConnect", 1>>},
           posted' = Append(posted, e)
    PROVE  NoNewStart
  <1> SUFFICES ASSUME NEW i \in DOMAIN posted', IsStart(i)'
               PROVE  i \in DOMAIN posted /\ IsStart(i)
    BY DEF NoNewStart
  <1>1. Len(posted) \in Nat /\ i \in 1 .. (Len(posted) + 1)
    OBVIOUS
  <1>2. posted'[Len(posted) + 1] = e
    OBVIOUS
  <1>3. i # Len(posted) + 1
    BY <1>2 DEF IsStart
  <1>4. i \in 1 .. Len(posted)
    BY <1>1, <1>3
  <1> QED BY <1>4 DEF IsStart

LEMMA QuietStart == ASSUME UNCHANGED posted PROVE NoNewStart
  BY DEF NoNewStart, IsStart

LEMMA WriteStart == ASSUME SentTypeOK, NEW g \in Gen, NEW item, hio_write(g, item)
                    PROVE  NoNewStart
  <1>1. CASE UNCHANGED posted
    BY <1>1, QuietStart
  <1>2. CASE WriteFails(g)
    <2>1. PostedClose(g) \in Events \ {<<"startConnect", 1>>}
      BY EventTypes DEF PostedClose
    <2> QED BY <1>2, <2>1, AppendStart DEF WriteFails, SentTypeOK
  <1> QED BY <1>1, <1>2 DEF hio_write, Written

\* What is behind the head of the queue does not connect.
LEMMA TailStart ==
    ASSUME posted \in Seq(Events), posted # << >>, StartIsFirst,
           \/ posted' = Tail(posted)
           \/ \E g \in Gen : posted' = Append(Tail(posted), PostedClose(g))
    PROVE  ~StartPosted'
  <1>1. \A i \in 1 .. Len(Tail(posted)) :
           Tail(posted)[i] = posted[i + 1] /\ i + 1 \in DOMAIN posted /\ i + 1 # 1
    OBVIOUS
  <1>2. \A i \in 1 .. Len(Tail(posted)) : Tail(posted)[i] # <<"startConnect", 1>>
    BY <1>1 DEF StartIsFirst, IsStart
  <1>3. CASE posted' = Tail(posted)
    BY <1>2, <1>3 DEF StartPosted, IsStart
  <1>4. ASSUME NEW g \in Gen, posted' = Append(Tail(posted), PostedClose(g))
        PROVE  ~StartPosted'
    <2>1. Tail(posted) \in Seq(Events)
      OBVIOUS
    <2>2. \A i \in DOMAIN posted' : \/ i \in 1 .. Len(Tail(posted)) /\ posted'[i] = Tail(posted)[i]
                                   \/ posted'[i] = PostedClose(g)
      BY <1>4, <2>1
    <2> QED BY <1>2, <2>2 DEF StartPosted, IsStart, PostedClose
  <1> QED BY <1>3, <1>4

\* While the loop thread exists there is a channel and main is past connect.
LEMMA LoopBusy == ASSUME HeartbeatInv, loop # "off" \/ lpc # "idle"
                  PROVE  channel \in Gen /\ channel # 0 /\ pc # "connect"
  BY DEF HeartbeatInv, BudgetInv, Blank, TypeInv, TypeOK, ClientTypeOK, NoChannel, Gen

\* The steps of the main thread.
LEMMA MainBudget == ASSUME HeartbeatInv, TypeInv', Main
                    PROVE  BudgetInv'
  <1> USE DEF HeartbeatInv, BudgetInv, TypeInv, TypeOK
  <1>1. CASE MainConnect
    <2>1. channel = 0 /\ lpc = "idle" /\ ping_cnt = 0 /\ lpc' = "idle" /\ ping_cnt' = 0
          /\ posted = << >> /\ unanswered' = unanswered
          /\ \A g \in Gen : io[g] = "none" /\ ~heartbeat'[g] /\ ~alive[g] /\ ~closing'[g]
      BY <1>1 DEF MainConnect, Blank, NoChannel, loopVars
    <2>2. ~Upgraded'
      BY <2>1 DEF Upgraded
    <2>3. UpgradedForGood' /\ SpentNotOpen' /\ Counted' /\ Blank'
      BY <1>1, <2>1, <2>2 DEF MainConnect, UpgradedForGood, SpentNotOpen, Counted,
         Blank, PingCap, MainTypeOK
    <2>4. state' # "WS_UPGRADING" /\ BusyNotFresh'
      BY <1>1, <2>1 DEF MainConnect, BusyNotFresh
    <2>5. CASE UNCHANGED <<channel, alive, io, posted>>
      <3>1. CurrentOnly'
        BY <2>1, <2>5 DEF CurrentOnly, Fresh
      <3>2. ~StartPosted' /\ StartIsFirst'
        BY <2>1, <2>5 DEF StartPosted, StartIsFirst, IsStart
      <3> QED BY <2>3, <2>4, <3>1, <3>2 DEF StartBeforeAll
    <2>6. CASE /\ channel' = 1
               /\ alive' = [alive EXCEPT ![1] = TRUE]
               /\ io' = [io EXCEPT ![1] = "idle"]
               /\ posted' = << <<"startConnect", 1>> >>
      <3>1. 1 \in Gen
        BY ClientAssumption DEF Gen
      <3>2. CurrentOnly'
        BY <2>1, <2>6, <3>1 DEF CurrentOnly, Fresh, HioTypeOK, ClientTypeOK
      <3>3. StartOnIdle'
        BY <2>1, <2>6, <3>1 DEF StartOnIdle, HioTypeOK
      <3>4. StartIsFirst'
        BY <2>6 DEF StartIsFirst, IsStart
      <3> QED BY <2>1, <2>2, <2>3, <2>4, <3>2, <3>3, <3>4 DEF StartBeforeAll
    <2> QED BY <1>1, <2>5, <2>6 DEF MainConnect
  <1>2. CASE MainSeesConnected \/ MainSleepsInLoop \/ MainSend \/ MainJoin
    <2>1. UNCHANGED <<status, io, heartbeat, state, closing, posted, loop, lpc,
                      channel, alive, ping_cnt, unanswered>>
      BY <1>2 DEF MainSeesConnected, MainSleepsInLoop, MainSend, MainJoin,
         hioVars, loopVars, vars
    <2>2. pc' = "connect" => UNCHANGED pc
      BY <1>2 DEF MainSeesConnected, MainSleepsInLoop, MainSend, MainJoin,
         SubscribeReturns, vars, mainVars
    <2>3. Downward /\ NoNewStart
      BY <2>1, QuietIsDownward, QuietStart
    <2>4. StartPosted' => StartOnIdle'
      BY <2>1 DEF StartPosted, IsStart, StartBeforeAll, StartOnIdle
    <2> QED BY <2>1, <2>2, <2>3, <2>4, CalmKeeps DEF Calm, UpgradedForGood
  <1>3. CASE MainWrite
    <2>1. UNCHANGED <<status, io, heartbeat, state, closing, loop, lpc,
                      channel, alive, ping_cnt, unanswered>>
          /\ pc' # "connect"
      BY <1>3 DEF MainWrite, loopVars, SubscribeReturns
    <2>2. held \in Gen
      BY <1>3 DEF MainWrite, IndexSet, MainTypeOK, Gen
    <2>3. Downward /\ NoNewStart
      BY <1>3, <2>1, <2>2, QuietIsDownward, WriteStart DEF MainWrite
    <2>4. StartPosted' => StartOnIdle'
      BY <2>1, <2>3 DEF StartPosted, NoNewStart, StartBeforeAll, StartOnIdle
    <2> QED BY <2>1, <2>3, <2>4, CalmKeeps DEF Calm, UpgradedForGood
  <1>4. CASE MainDestroy \/ MainStop
    <2>1. /\ UNCHANGED <<status, io, heartbeat, closing, lpc, channel, alive,
                         ping_cnt, unanswered>>
          /\ pc' # "connect"
          /\ loop' \in {"running", "stopping"} => loop \in {"running", "stopping"}
          /\ state' \in {state, "WS_CLOSED"}
      BY <1>4 DEF MainDestroy, MainStop, EventLoopStop, loopVars, hioVars
    <2>2. Downward
      BY <2>1 DEF Downward, Fresh, isOpened
    <2>3. NoNewStart
      BY <1>4, EventTypes, AppendStart, QuietStart
      DEF MainDestroy, MainStop, SentTypeOK
    <2>4. StartPosted' => StartOnIdle'
      BY <2>1, <2>3 DEF StartPosted, NoNewStart, StartBeforeAll, StartOnIdle
    <2> QED BY <2>1, <2>2, <2>3, <2>4, CalmKeeps DEF Calm, UpgradedForGood
  <1> QED BY <1>1, <1>2, <1>3, <1>4 DEF Main

\* The steps inside onConnection and onMessage: no functor that connects waits,
\* and no socket is connecting.
LEMMA CallbackBudget == ASSUME HeartbeatInv, TypeInv', Callback
                        PROVE  BudgetInv'
  <1> USE DEF HeartbeatInv, BudgetInv, TypeInv, TypeOK
  <1>1. lpc # "idle"
    BY DEF Callback, LoopOnConnection, LoopUpgradeRefused, LoopUpgraded, LoopRedirect,
       LoopCloseOld, LoopReopenFails, LoopReopen, LoopReopenCrashes, LoopDropBuffer,
       LoopFeedParser, LoopOnText, LoopOnPing, LoopOnPong, LoopOnClose, InUpgrade,
       NextFrame
  <1>2. channel \in Gen /\ channel # 0 /\ pc # "connect" /\ NoneFresh /\ ~StartPosted
    BY <1>1, LoopBusy DEF BusyNotFresh, StartBeforeAll
  <1>3. ASSUME NoNewStart PROVE ~StartPosted' /\ StartIsFirst' /\ StartBeforeAll'
    BY <1>2, <1>3 DEF StartPosted, NoNewStart, StartIsFirst, StartBeforeAll
  <1>4. CASE \/ LoopUpgradeRefused \/ LoopRedirect \/ LoopCloseOld \/ LoopReopenFails
             \/ LoopReopenCrashes \/ LoopDropBuffer \/ LoopFeedParser \/ LoopOnText
             \/ LoopOnPing \/ LoopOnClose
    <2>1. UNCHANGED <<channel, alive, ping_cnt, unanswered>> /\ pc' # "connect"
      BY <1>2, <1>4 DEF LoopUpgradeRefused, LoopRedirect, LoopCloseOld, LoopReopenFails,
         LoopReopenCrashes, LoopDropBuffer, LoopFeedParser, LoopOnText, LoopOnPing,
         LoopOnClose, NextFrame, mainVars
    <2>2. Downward
      <3>1. CASE LoopUpgradeRefused \/ LoopCloseOld \/ LoopOnClose
        BY <1>2, <3>1, CloseIsDownward, QuietIsDownward
        DEF LoopUpgradeRefused, LoopCloseOld, LoopOnClose, hioVars
      <3>2. CASE LoopReopenFails
        BY <3>2 DEF LoopReopenFails, Downward, Fresh, isOpened
      <3>3. CASE ~(LoopUpgradeRefused \/ LoopCloseOld \/ LoopOnClose \/ LoopReopenFails)
        BY <1>4, <3>3, QuietIsDownward
        DEF LoopRedirect, LoopReopenCrashes, LoopDropBuffer, LoopFeedParser,
            LoopOnText, LoopOnPing, hioVars
      <3> QED BY <3>1, <3>2, <3>3
    <2>3. NoNewStart
      <3>1. CASE LoopOnPing
        BY <1>2, <3>1, WriteStart, QuietStart DEF LoopOnPing, WriteControl
      <3>2. CASE ~LoopOnPing
        BY <1>4, <3>2, QuietStart
        DEF LoopUpgradeRefused, LoopRedirect, LoopCloseOld, LoopReopenFails,
            LoopReopenCrashes, LoopDropBuffer, LoopFeedParser, LoopOnText, LoopOnClose
      <3> QED BY <3>1, <3>2
    <2>4. Upgraded => lpc' \in {"idle", "onMessage", "frames"}
      BY <1>4 DEF UpgradedForGood, LoopUpgradeRefused, LoopRedirect, LoopCloseOld,
         LoopReopenFails, LoopReopenCrashes, LoopDropBuffer, LoopFeedParser,
         LoopOnText, LoopOnPing, LoopOnClose, InUpgrade, NextFrame, ReturnToLoop
    <2> QED BY <1>1, <1>3, <2>1, <2>2, <2>3, <2>4, CalmKeeps DEF Calm
  <1>5. CASE LoopOnConnection
    <2>1. ~Upgraded
      BY <1>5 DEF LoopOnConnection, UpgradedForGood
    <2>2. NoNewStart
      <3>1. cur \in Gen
        BY <1>5 DEF LoopOnConnection, IndexSet, LoopTypeOK, Gen
      <3> QED BY <1>5, <3>1, WriteStart DEF LoopOnConnection
    <2>3. Blank' /\ CurrentOnly' /\ BusyNotFresh' /\ Counted'
      BY <1>2, <1>5 DEF LoopOnConnection, mainVars, Blank, CurrentOnly, Fresh,
         BusyNotFresh, NoneFresh, Counted
    <2>4. UpgradedForGood' /\ SpentNotOpen'
      BY <1>5, <2>1 DEF LoopOnConnection, UpgradedForGood, Upgraded, SpentNotOpen, PingCap
    <2> QED BY <1>3, <2>2, <2>3, <2>4
  <1>6. CASE LoopUpgraded
    <2>1. NoNewStart
      BY <1>6, QuietStart DEF LoopUpgraded
    <2>2. Blank' /\ CurrentOnly' /\ BusyNotFresh' /\ Counted' /\ SpentNotOpen'
      BY <1>2, <1>6 DEF LoopUpgraded, mainVars, Blank, CurrentOnly, Fresh,
         BusyNotFresh, NoneFresh, Counted, SpentNotOpen, PingCap
    <2>3. UpgradedForGood'
      BY <1>2, <1>6 DEF LoopUpgraded, UpgradedForGood, NoneFresh, Fresh
    <2> QED BY <1>3, <2>1, <2>2, <2>3
  <1>7. CASE LoopReopen
    <2>1. ~Upgraded /\ ping_cnt = 0
      BY <1>7 DEF LoopReopen, UpgradedForGood, Upgraded, ClientTypeOK
    <2>2. channel + 1 \in Gen /\ PostedClose(channel + 1) # <<"startConnect", 1>>
      BY <1>2, <1>7 DEF LoopReopen, Gen, PostedClose, ClientTypeOK
    <2>3. NoNewStart
      BY <1>7, <2>2, AppendStart, QuietStart, EventTypes DEF LoopReopen, SentTypeOK
    <2>4. ~Upgraded' /\ ping_cnt' = 0
      BY <1>7, <2>1 DEF LoopReopen, Upgraded
    <2>5. CurrentOnly'
      BY <1>2, <1>7, <2>2 DEF LoopReopen, CurrentOnly, NoneFresh, Fresh, HioTypeOK, ClientTypeOK
    <2>6. Blank' /\ BusyNotFresh' /\ Counted'
      BY <1>2, <1>7 DEF LoopReopen, ReturnToLoop, mainVars, Blank, BusyNotFresh, Counted
    <2>7. UpgradedForGood' /\ SpentNotOpen'
      BY <2>4 DEF UpgradedForGood, SpentNotOpen, PingCap
    <2> QED BY <1>3, <2>3, <2>5, <2>6, <2>7
  <1>8. CASE LoopOnPong
    <2>1. UNCHANGED <<status, io, closing, heartbeat, state, posted, channel, alive, pc>>
          /\ ping_cnt' = 0 /\ unanswered' = 0 /\ lpc' \in {"idle", "frames"}
      BY <1>8 DEF LoopOnPong, NextFrame, mainVars, hioVars
    <2>2. NoNewStart
      BY <2>1, QuietStart
    <2>3. Blank' /\ CurrentOnly' /\ BusyNotFresh' /\ Counted' /\ SpentNotOpen'
      BY <1>2, <2>1 DEF Blank, CurrentOnly, Fresh, BusyNotFresh, NoneFresh, Counted,
         SpentNotOpen, PingCap
    <2>4. UpgradedForGood'
      BY <2>1 DEF UpgradedForGood, Upgraded, NoneFresh, Fresh
    <2> QED BY <1>3, <2>2, <2>3, <2>4
  <1> QED BY <1>4, <1>5, <1>6, <1>7, <1>8 DEF Callback

\* The events that the loop takes up: those that close, those that connect, a
\* buffer that is read, and the heartbeat.
LEMMA LoopBudget == ASSUME HeartbeatInv, TypeInv', Loop, ~Callback
                    PROVE  BudgetInv'
  <1> USE DEF HeartbeatInv, BudgetInv, TypeInv, TypeOK
  <1>1. channel \in Gen /\ channel # 0 /\ pc # "connect"
    <2>1. loop # "off"
      BY DEF Loop, LoopStartConnect, LoopPostedClose, LoopPostedClosesocket, LoopLeaves,
         LoopStops, TakePosted, LoopTcpConnected, LoopHandshakeDone, LoopConnectFails,
         LoopRead, LoopHangup, LoopIoError, LoopDrain, LoopCloseTimeout, LoopHeartbeat,
         LoopFreesIo, LoopFree
    <2> QED BY <2>1, LoopBusy
  <1>2. 1 \in Gen
    BY ClientAssumption DEF Gen
  <1>3. ASSUME StartPosted, LoopFree PROVE io[1] = "idle" /\ ~closing[1]
    BY <1>3 DEF StartBeforeAll, StartOnIdle, LoopFree
  \* An event that closes one hio which is not waiting for startConnect.
  <1>4. ASSUME NEW g \in Gen, UNCHANGED <<mainVars, loopVars, channel, ping_cnt, alive,
                                          posted, unanswered>>,
               Downward, \A h \in Gen \ {g} : io'[h] = io[h] /\ closing'[h] = closing[h],
               LoopFree, io[g] \in {"up", "connecting", "tls"} \/ closing[g]
        PROVE  BudgetInv'
    <2>1. StartPosted' => g # 1 /\ StartOnIdle'
      BY <1>2, <1>3, <1>4 DEF StartPosted, IsStart, StartOnIdle
    <2> QED BY <1>1, <1>4, <2>1, QuietStart, CalmKeeps
            DEF Calm, loopVars, mainVars, LoopFree
  <1>5. ASSUME NEW g \in Gen, LoopConnectFails(g) \/ LoopIoError(g) \/ LoopCloseTimeout(g)
        PROVE  BudgetInv'
    <2>1. CloseNow(g) /\ UNCHANGED <<mainVars, loopVars, channel, ping_cnt, alive,
                                     posted, unanswered>>
          /\ LoopFree /\ (io[g] \in {"up", "connecting", "tls"} \/ closing[g])
      BY <1>5 DEF LoopConnectFails, LoopIoError, LoopCloseTimeout
    <2>2. \A h \in Gen \ {g} : io'[h] = io[h] /\ closing'[h] = closing[h]
      BY <2>1 DEF CloseNow, close_timers, HioTypeOK
    <2> QED BY <1>4, <2>1, <2>2, CloseNowIsDownward
  <1>6. ASSUME NEW g \in Gen, LoopHangup(g) PROVE BudgetInv'
    <2>1. Downward
      BY <1>6, CloseIsDownward DEF LoopHangup
    <2>2. \A h \in Gen \ {g} : io'[h] = io[h] /\ closing'[h] = closing[h]
      BY <1>6 DEF LoopHangup, hio_close, CloseNow, CloseLater, close_timers, HioTypeOK
    <2> QED BY <1>4, <1>6, <2>1, <2>2 DEF LoopHangup
  <1>7. ASSUME NEW g \in Gen, LoopDrain(g) PROVE BudgetInv'
    <2>1. Downward
      BY <1>7, CloseNowIsDownward, QuietIsDownward DEF LoopDrain
    <2>2. \A h \in Gen \ {g} : io'[h] = io[h] /\ closing'[h] = closing[h]
      BY <1>7 DEF LoopDrain, CloseNow, close_timers, HioTypeOK
    <2> QED BY <1>4, <1>7, <2>1, <2>2 DEF LoopDrain
  <1>8. ASSUME NEW g \in Gen, LoopTcpConnected(g) PROVE BudgetInv'
    <2>1. Downward
      BY <1>8 DEF LoopTcpConnected, Downward, Fresh, isOpened, openIo, HioTypeOK
    <2>2. \A h \in Gen \ {g} : io'[h] = io[h] /\ closing'[h] = closing[h]
      BY <1>8 DEF LoopTcpConnected, HioTypeOK
    <2> QED BY <1>4, <1>8, <2>1, <2>2 DEF LoopTcpConnected
  <1>9. CASE LoopPostedClose \/ LoopPostedClosesocket
    <2>1. ~StartPosted'
      BY <1>9, TailStart DEF LoopPostedClose, LoopPostedClosesocket, TakePosted, SentTypeOK
    <2>2. Downward
      <3>1. CASE LoopPostedClosesocket
        BY <1>1, <3>1, CloseIsDownward DEF LoopPostedClosesocket
      <3>2. CASE LoopPostedClose
        <4>1. Head(posted) \in Events /\ Head(posted)[1] = "hio_close"
          BY <3>2, PostType DEF LoopPostedClose, TakePosted, SentTypeOK
        <4>2. Head(posted)[2] \in Gen
          BY <4>1 DEF Events, PostedClose
        <4> QED BY <3>2, <4>2, CloseNowIsDownward, QuietIsDownward
                DEF LoopPostedClose, hioVars
      <3> QED BY <1>9, <3>1, <3>2
    <2>3. NoNewStart
      BY <2>1 DEF StartPosted, NoNewStart
    <2> QED BY <1>1, <1>9, <2>1, <2>2, <2>3, CalmKeeps
            DEF Calm, LoopPostedClose, LoopPostedClosesocket, TakePosted, LoopFree,
                loopVars, mainVars
  <1>10. CASE LoopLeaves \/ LoopStops
    <2>1. Downward /\ NoNewStart
      BY <1>10, QuietIsDownward, QuietStart DEF LoopLeaves, LoopStops, hioVars
    <2> QED BY <1>1, <1>10, <2>1, CalmKeeps
            DEF Calm, LoopLeaves, LoopStops, hioVars, mainVars, StartOnIdle, UpgradedForGood
  <1>11. ASSUME NEW g \in Gen, LoopFreesIo(g) PROVE BudgetInv'
    <2>1. Downward
      <3>1. CASE CloseNow(g)
        BY <3>1, CloseNowIsDownward
      <3>2. CASE /\ io' = [io EXCEPT ![g] = "freed"]
                 /\ heartbeat' = [heartbeat EXCEPT ![g] = FALSE]
                 /\ UNCHANGED <<status, state>>
        BY <3>2 DEF Downward, Fresh, isOpened, openIo, HioTypeOK
      <3> QED BY <1>11, <3>1, <3>2 DEF LoopFreesIo
    <2> QED BY <1>1, <1>11, <2>1, QuietStart, CalmKeeps
            DEF Calm, LoopFreesIo, mainVars, loopVars, StartOnIdle, UpgradedForGood
  <1>12. CASE LoopStartConnect
    <2>1. StartPosted
      <3>1. Head(posted) \in Events /\ Head(posted)[1] = "startConnect" /\ 1 \in DOMAIN posted
        BY <1>12, PostType DEF LoopStartConnect, TakePosted, SentTypeOK
      <3>2. Head(posted) = <<"startConnect", 1>>
        BY <3>1 DEF Events, PostedClose
      <3> QED BY <3>1, <3>2 DEF StartPosted, IsStart
    <2>2. io[1] = "idle" /\ channel = 1 /\ ~Upgraded /\ ping_cnt = 0
      BY <1>2, <1>3, <1>12, <2>1 DEF LoopStartConnect, TakePosted, CurrentOnly, Fresh,
         StartBeforeAll, Upgraded, ClientTypeOK
    <2>3. ~StartPosted' /\ StartIsFirst' /\ StartBeforeAll'
      <3>1. ~StartPosted'
        BY <1>2, <1>12, TailStart DEF LoopStartConnect, TakePosted, SentTypeOK
      <3> QED BY <3>1 DEF StartPosted, StartIsFirst, StartBeforeAll
    <2>4. CurrentOnly'
      BY <1>12, <2>2 DEF LoopStartConnect, CurrentOnly, Fresh, HioTypeOK
    <2>5. BusyNotFresh'
      BY <1>12, <2>1 DEF LoopStartConnect, BusyNotFresh, StartBeforeAll
    <2>6. Blank' /\ Counted' /\ SpentNotOpen' /\ UpgradedForGood'
      BY <1>1, <1>12, <2>2 DEF LoopStartConnect, mainVars, Blank, Counted, SpentNotOpen,
         PingCap, UpgradedForGood, Upgraded
    <2> QED BY <2>3, <2>4, <2>5, <2>6
  <1>13. ASSUME NEW g \in Gen, LoopHandshakeDone(g) PROVE BudgetInv'
    <2>1. g = channel /\ ~Upgraded /\ ping_cnt = 0
      BY <1>13 DEF LoopHandshakeDone, CurrentOnly, UpgradedForGood, NoneFresh, Fresh,
         Upgraded, ClientTypeOK
    <2>2. ~StartPosted'
      BY <1>2, <1>3, <1>13, <2>1 DEF LoopHandshakeDone, StartPosted, IsStart,
         CurrentOnly, Fresh
    <2>3. NoneFresh' /\ CurrentOnly'
      BY <1>13, <2>1 DEF LoopHandshakeDone, NoneFresh, CurrentOnly, Fresh, HioTypeOK
    <2>4. StartIsFirst' /\ StartBeforeAll'
      BY <2>2 DEF StartPosted, StartIsFirst, StartBeforeAll
    <2>5. Blank' /\ BusyNotFresh' /\ Counted' /\ SpentNotOpen' /\ UpgradedForGood'
      BY <1>1, <1>13, <2>1, <2>3 DEF LoopHandshakeDone, mainVars, Blank, BusyNotFresh,
         Counted, SpentNotOpen, PingCap, UpgradedForGood, Upgraded, Gen
    <2> QED BY <2>3, <2>4, <2>5
  <1>14. ASSUME NEW g \in Gen, LoopRead(g) PROVE BudgetInv'
    <2>1. g = channel
      BY <1>14 DEF LoopRead, CurrentOnly
    <2>2. NoneFresh
      BY <1>14, <2>1 DEF LoopRead, CurrentOnly, NoneFresh, Fresh
    <2>3. ~StartPosted
      BY <1>2, <1>3, <1>14, <2>2 DEF LoopRead, NoneFresh, Fresh
    <2>4. UNCHANGED <<status, io, closing, heartbeat, state, posted, channel, alive,
                      ping_cnt, unanswered, pc>> /\ lpc' = "onMessage"
      BY <1>14 DEF LoopRead, hioVars, mainVars
    <2>5. StartIsFirst' /\ StartBeforeAll'
      BY <2>3, <2>4 DEF StartPosted, IsStart, StartIsFirst, StartBeforeAll
    <2>6. Blank' /\ CurrentOnly' /\ BusyNotFresh' /\ Counted' /\ SpentNotOpen'
      BY <1>1, <2>2, <2>4 DEF Blank, CurrentOnly, BusyNotFresh, NoneFresh, Fresh,
         Counted, SpentNotOpen, isOpened
    <2>7. UpgradedForGood'
      BY <1>1, <2>2, <2>4 DEF UpgradedForGood, Upgraded, NoneFresh, Fresh
    <2> QED BY <2>5, <2>6, <2>7
  <1>15. ASSUME NEW g \in Gen, LoopHeartbeat(g) PROVE BudgetInv'
    <2>1. Upgraded /\ ~StartPosted
      BY <1>15 DEF LoopHeartbeat, Upgraded, StartBeforeAll
    <2>2. Downward
      <3>1. CASE GivesUp
        BY <1>1, <1>15, <3>1, CloseIsDownward DEF LoopHeartbeat
      <3>2. CASE ~GivesUp
        BY <1>15, <3>2, QuietIsDownward DEF LoopHeartbeat
      <3> QED BY <3>1, <3>2
    <2>3. NoNewStart
      BY <1>1, <1>15, WriteStart, QuietStart DEF LoopHeartbeat, WriteControl
    <2>4. StartIsFirst' /\ StartBeforeAll'
      BY <2>1, <2>3 DEF StartPosted, NoNewStart, StartIsFirst, StartBeforeAll
    <2>5. Blank' /\ CurrentOnly' /\ BusyNotFresh' /\ UpgradedForGood'
      BY <1>1, <1>15, <2>1, <2>2 DEF LoopHeartbeat, LoopFree, mainVars, loopVars, Blank,
         CurrentOnly, BusyNotFresh, NoneFresh, Downward, UpgradedForGood
    <2>6. SpentNotOpen'
      <3>1. CASE GivesUp
        BY <1>1, <1>15, <3>1, ClosedIsNotOpen DEF LoopHeartbeat, SpentNotOpen
      <3>2. CASE ~GivesUp /\ ping_cnt' = PingCap
        <4>1. ping_cnt = PingCap
          BY <1>15, <3>2 DEF LoopHeartbeat, GivesUp, PingCap, ClientTypeOK
        <4> QED BY <1>1, <1>15, <2>2, <4>1 DEF LoopHeartbeat, Downward, SpentNotOpen
      <3> QED BY <3>1, <3>2 DEF SpentNotOpen
    <2>7. Counted'
      <3>1. CASE GivesUp
        BY <1>15, <3>1 DEF LoopHeartbeat, GivesUp, Counted, PingCap, ClientTypeOK
      <3>2. CASE ~GivesUp /\ ping_cnt < 3
        BY <1>15, <3>2 DEF LoopHeartbeat, Counted, PingCap, ClientTypeOK
      <3>3. CASE ~GivesUp /\ ping_cnt = PingCap
        BY <1>15, <3>3 DEF LoopHeartbeat, Counted, SpentNotOpen, PingCap
      <3> QED BY <3>1, <3>2, <3>3 DEF GivesUp, PingCap, ClientTypeOK
    <2> QED BY <2>4, <2>5, <2>6, <2>7
  <1> QED BY <1>5, <1>6, <1>7, <1>8, <1>9, <1>10, <1>11, <1>12, <1>13, <1>14, <1>15 DEF Loop

\* The server touches the wire only.
LEMMA ServerBudget == ASSUME HeartbeatInv, TypeInv', Server
                      PROVE  BudgetInv'
  <1> USE DEF HeartbeatInv, BudgetInv
  <1>1. UNCHANGED <<mainVars, hioVars, loopVars, channel, alive, ping_cnt, posted, unanswered>>
    BY DEF Server, ServerResponds, ServerSends, ServerHangsUp
  <1>2. Downward /\ NoNewStart
    BY <1>1, QuietIsDownward, QuietStart DEF hioVars
  <1> QED BY <1>1, <1>2, CalmKeeps
          DEF Calm, mainVars, hioVars, loopVars, StartPosted, IsStart, StartBeforeAll,
              StartOnIdle, UpgradedForGood

\* So HeartbeatInv is inductive.
LEMMA HeartbeatInit == Init => HeartbeatInv
  <1>1. Init => TypeInv
    BY InitType
  <1>2. Init => BudgetInv
    BY ClientAssumption DEF Init, BudgetInv, Blank, CurrentOnly, StartBeforeAll,
       StartIsFirst, StartPosted, IsStart, BusyNotFresh, UpgradedForGood, Upgraded,
       SpentNotOpen, Counted, PingCap, Fresh, NoneFresh
  <1> QED BY <1>1, <1>2 DEF HeartbeatInv

LEMMA HeartbeatStep == HeartbeatInv /\ [Next]_vars => HeartbeatInv'
  <1> SUFFICES ASSUME HeartbeatInv, [Next]_vars PROVE HeartbeatInv'
    OBVIOUS
  <1>1. TypeInv'
    BY StepType DEF HeartbeatInv
  <1>2. CASE Main
    BY <1>1, <1>2, MainBudget DEF HeartbeatInv
  <1>3. CASE Loop
    BY <1>1, <1>3, CallbackBudget, LoopBudget DEF HeartbeatInv
  <1>4. CASE Server
    BY <1>1, <1>4, ServerBudget DEF HeartbeatInv
  <1>5. CASE UNCHANGED vars
    BY <1>1, <1>5 DEF vars, mainVars, hioVars, loopVars, HeartbeatInv, BudgetInv,
       Blank, CurrentOnly, StartBeforeAll, StartOnIdle, StartIsFirst, StartPosted,
       IsStart, BusyNotFresh, UpgradedForGood, Upgraded, SpentNotOpen, Counted,
       Fresh, NoneFresh, isOpened
  <1> QED BY <1>2, <1>3, <1>4, <1>5 DEF Next, Exited

\* On no connection, however often it is redirected and whatever the server
\* sends, are more than three PINGs without a PONG.
THEOREM PingBudgetHolds == Spec => []PingBudget
  <1>1. HeartbeatInv => PingBudget
    BY DEF HeartbeatInv, BudgetInv, TypeInv, TypeOK, ClientTypeOK, Counted, PingBudget
  <1> QED BY <1>1, HeartbeatInit, HeartbeatStep, PTL DEF Spec

-----------------------------------------------------------------------------
(* Timers and old connections: whose an hio is, and when it is closed.      *)

\* The heartbeat runs on a socket that is up and has its Channel.
TimerOnLive == \A g \in Gen : heartbeat[g] => io[g] = "up" /\ alive[g]

\* onMessage is about such a socket: nothing else runs in the loop thread.
ReadsLive == lpc = "onMessage" => cur \in Gen /\ alive[cur] /\ io[cur] = "up"

CleanupIsIdle == loop \in {"cleanup", "stopped"} => lpc = "idle"

\* Channel::close closes the hio, now or when its write queue is empty.
ClosedIsClosing ==
    \A g \in Gen : io[g] \in openIo /\ status[g] \in {"NULL", "CLOSED"} => closing[g]

\* No connection is made ahead of its turn.
LaterIsNone == \A g \in Gen : g > channel => io[g] = "none" /\ ~closing[g]

\* Before open replaces the Channel its close() has run.
ReopensClosed ==
    lpc = "reopen" /\ loop = "running" /\ io[channel] \in openIo => closing[channel]

HiosOwned == TimerOnLive /\ ClosedIsClosing /\ LaterIsNone /\ OldConnectionsEnd

OwnerInv ==
    HeartbeatInv /\ HiosOwned /\ ReadsLive /\ CleanupIsIdle /\ ReopensClosed

\* A close, now or later, leaves every hio with its owner.
LEMMA CloseOwned ==
    ASSUME HioTypeOK, channel \in 0 .. MaxChan, HiosOwned, NEW h \in Gen,
           CloseNow(h) \/ hio_close(h) \/ ChannelClose(h), h <= channel,
           UNCHANGED <<channel, alive>>
    PROVE  HiosOwned'
  <1> USE ClientAssumption
      DEF HioTypeOK, HiosOwned, TimerOnLive, ClosedIsClosing, LaterIsNone, OldConnectionsEnd, Gen
  <1>1. CASE UNCHANGED hioVars
    BY <1>1 DEF hioVars
  <1>2. CASE CloseNow(h)
    BY <1>2 DEF CloseNow, close_timers, on_close, openIo
  <1>3. CASE CloseLater(h) /\ (UNCHANGED status \/ status' = [status EXCEPT ![h] = "CLOSED"])
    BY <1>3 DEF CloseLater
  <1> QED BY <1>1, <1>2, <1>3 DEF hio_close, ChannelClose

LEMMA QuietOwned ==
    ASSUME HiosOwned, UNCHANGED <<io, status, closing, heartbeat, channel, alive>>
    PROVE  HiosOwned'
  BY DEF HiosOwned, TimerOnLive, ClosedIsClosing, LaterIsNone, OldConnectionsEnd

\* What main, the server and the loop's end do.
LEMMA MainOwned == ASSUME OwnerInv, HeartbeatInv', Main PROVE OwnerInv'
  <1> USE DEF OwnerInv
  <1>1. CASE MainConnect
    <2>1. /\ channel = 0 /\ lpc = "idle" /\ lpc' = lpc /\ loop' \in {loop, "running"}
          /\ \A g \in Gen : ~heartbeat[g] /\ io[g] = "none" /\ ~closing[g]
      BY <1>1, ClientAssumption
         DEF MainConnect, HeartbeatInv, BudgetInv, Blank, UpgradedForGood, Upgraded,
             BusyNotFresh, HiosOwned, LaterIsNone, Gen, vars, loopVars
    <2>2. HiosOwned'
      BY <1>1, <2>1, ClientAssumption
         DEF MainConnect, HiosOwned, TimerOnLive, ClosedIsClosing, LaterIsNone,
             OldConnectionsEnd, Gen, openIo, HeartbeatInv, TypeInv, TypeOK, HioTypeOK, ClientTypeOK
    <2> QED BY <1>1, <2>1, <2>2 DEF ReadsLive, CleanupIsIdle, ReopensClosed
  <1>2. CASE Main /\ ~MainConnect
    <2>1. UNCHANGED <<io, status, closing, heartbeat, channel, alive, lpc, cur>>
          /\ loop' \in {loop, "stopping"}
      BY <1>2
         DEF Main, MainSeesConnected, MainSleepsInLoop, MainSend, MainWrite, MainDestroy,
             MainStop, MainJoin, EventLoopStop, vars, hioVars, loopVars
    <2> QED BY <2>1, QuietOwned DEF ReadsLive, CleanupIsIdle, ReopensClosed
  <1> QED BY <1>1, <1>2 DEF Main

LEMMA ServerOwned ==
    ASSUME OwnerInv, HeartbeatInv', Server \/ UNCHANGED vars PROVE OwnerInv'
  <1>1. UNCHANGED <<io, status, closing, heartbeat, channel, alive, loopVars>>
    BY DEF Server, ServerResponds, ServerSends, ServerHangsUp, vars, hioVars
  <1> QED BY <1>1, QuietOwned DEF OwnerInv, ReadsLive, CleanupIsIdle, ReopensClosed, loopVars

\* What callbacks do.
LEMMA CallbackOwned == ASSUME OwnerInv, HeartbeatInv', Callback PROVE OwnerInv'
  <1> USE DEF OwnerInv
  <1>1. /\ channel \in Gen /\ HioTypeOK /\ channel \in 0 .. MaxChan /\ channel <= channel
        /\ alive \in [Gen -> BOOLEAN] /\ loop \notin {"cleanup", "stopped"}
    <2>1. lpc # "idle"
      BY DEF Callback, LoopOnConnection, LoopUpgradeRefused, LoopUpgraded, LoopRedirect,
             LoopCloseOld, LoopReopenFails, LoopReopen, LoopReopenCrashes, LoopDropBuffer,
             LoopFeedParser, LoopOnText, LoopOnPing, LoopOnPong, LoopOnClose, InUpgrade, NextFrame
    <2> QED BY <2>1, LoopBusy, ClientAssumption
            DEF CleanupIsIdle, HeartbeatInv, TypeInv, TypeOK, ClientTypeOK, Gen
  <1>2. CASE LoopUpgradeRefused
    <2>1. lpc' = "idle" /\ UNCHANGED <<channel, alive, loop>> /\ ChannelClose(channel)
      BY <1>2 DEF LoopUpgradeRefused, ReturnToLoop
    <2> QED BY <1>1, <2>1, CloseOwned DEF ReadsLive, CleanupIsIdle, ReopensClosed
  <1>3. CASE LoopUpgraded
    <2>1. cur = channel /\ io[channel] = "up" /\ alive[channel]
      BY <1>3, <1>1 DEF LoopUpgraded, InUpgrade, ReadsLive, HeartbeatInv, BudgetInv, CurrentOnly
    <2>2. /\ heartbeat' = [heartbeat EXCEPT ![channel] = TRUE] /\ lpc' \in {"idle", "onMessage"}
          /\ UNCHANGED <<io, status, closing, channel, alive, loop, cur>>
      BY <1>3 DEF LoopUpgraded
    <2>3. HiosOwned'
      BY <1>1, <2>1, <2>2
         DEF HioTypeOK, HiosOwned, TimerOnLive, ClosedIsClosing, LaterIsNone, OldConnectionsEnd
    <2> QED BY <1>1, <2>1, <2>2, <2>3 DEF ReadsLive, CleanupIsIdle, ReopensClosed
  <1>4. CASE LoopCloseOld
    <2>1. lpc' = "reopen" /\ UNCHANGED <<channel, alive, loop>>
      BY <1>4 DEF LoopCloseOld
    <2>2. HiosOwned'
      BY <1>1, <1>4, <2>1, CloseOwned, QuietOwned DEF LoopCloseOld, hioVars
    <2>3. ReopensClosed'
      <3>1. CASE loop = "running" /\ ~isOpened(channel)
        BY <1>1, <1>4, <2>1, <3>1
           DEF LoopCloseOld, ChannelClose, hioVars, isOpened, ReopensClosed, HiosOwned, ClosedIsClosing
      <3>2. CASE loop = "running" /\ isOpened(channel)
        BY <1>1, <1>4, <2>1, <3>2
           DEF LoopCloseOld, ChannelClose, CloseNow, close_timers, CloseLater, HioTypeOK,
               ReopensClosed, openIo
      <3> QED BY <2>1, <3>1, <3>2 DEF ReopensClosed
    <2> QED BY <1>1, <2>1, <2>2, <2>3 DEF ReadsLive, CleanupIsIdle
  <1>5. CASE LoopReopen
    <2> DEFINE new == channel + 1
    <2>1. /\ lpc = "reopen" /\ loop = "running" /\ lpc' = "idle" /\ new \in Gen
          /\ channel' = new /\ alive' = [alive EXCEPT ![channel] = FALSE, ![new] = TRUE]
          /\ status' = [status EXCEPT ![new] = "CONNECTING"]
          /\ \E p \in {"connecting", "idle"} : io' = [io EXCEPT ![new] = p]
          /\ UNCHANGED <<closing, heartbeat, loop>>
      BY <1>1, <1>5, ClientAssumption DEF LoopReopen, ReturnToLoop, Gen
    <2>2. \A g \in Gen : ~heartbeat[g]
      BY <2>1 DEF HeartbeatInv, BudgetInv, UpgradedForGood, Upgraded
    <2>3. OldConnectionsEnd'
      BY <1>1, <2>1, ClientAssumption
         DEF HiosOwned, OldConnectionsEnd, ReopensClosed, HioTypeOK, Gen
    <2>4. ClosedIsClosing' /\ LaterIsNone' /\ TimerOnLive'
      BY <1>1, <2>1, <2>2, ClientAssumption
         DEF HiosOwned, TimerOnLive, ClosedIsClosing, LaterIsNone, HioTypeOK, Gen
    <2> QED BY <2>1, <2>3, <2>4 DEF HiosOwned, ReadsLive, CleanupIsIdle, ReopensClosed
  <1>6. CASE LoopOnClose
    <2>1. lpc' \in {"idle", "frames"} /\ UNCHANGED <<channel, alive, loop>> /\ ChannelClose(channel)
      BY <1>6 DEF LoopOnClose, NextFrame
    <2> QED BY <1>1, <2>1, CloseOwned DEF ReadsLive, CleanupIsIdle, ReopensClosed
  <1>7. CASE \/ LoopOnConnection \/ LoopRedirect \/ LoopReopenFails \/ LoopReopenCrashes
             \/ LoopDropBuffer \/ LoopFeedParser \/ LoopOnText \/ LoopOnPing \/ LoopOnPong
    <2>1. /\ UNCHANGED <<io, status, closing, heartbeat, channel, alive, loop>>
          /\ lpc' \in {"idle", "closeOld", "crashed", "frames"}
      BY <1>7
         DEF LoopOnConnection, LoopRedirect, LoopReopenFails, LoopReopenCrashes, LoopDropBuffer,
             LoopFeedParser, LoopOnText, LoopOnPing, LoopOnPong, NextFrame, ReturnToLoop, hioVars
    <2> QED BY <1>1, <2>1, QuietOwned DEF ReadsLive, CleanupIsIdle, ReopensClosed
  <1> QED BY <1>2, <1>3, <1>4, <1>5, <1>6, <1>7 DEF Callback

\* What the loop does between callbacks.
LEMMA LoopOwned == ASSUME OwnerInv, HeartbeatInv', Loop, ~Callback PROVE OwnerInv'
  <1> USE DEF OwnerInv
  <1>1. /\ HioTypeOK /\ channel \in 0 .. MaxChan /\ alive \in [Gen -> BOOLEAN]
        /\ \A g \in Gen : io[g] # "none" \/ closing[g] => g <= channel
    BY ClientAssumption DEF HeartbeatInv, TypeInv, TypeOK, ClientTypeOK, HiosOwned, LaterIsNone, Gen
  <1>2. CASE LoopStartConnect
    <2>1. /\ lpc = "idle" /\ loop \in {"running", "stopping"} /\ lpc' = lpc
          /\ loop' \in {"running", "stopping"}
          /\ status' = [status EXCEPT ![1] = "CONNECTING"]
          /\ io' = [io EXCEPT ![1] = "connecting"] \/ io' = io
          /\ UNCHANGED <<closing, heartbeat, channel, alive>>
      BY <1>2 DEF LoopStartConnect, TakePosted, LoopFree
    <2>2. 1 \in Gen /\ channel \in Gen
      BY <2>1, LoopBusy, ClientAssumption DEF Gen
    <2>3. io[1] = "idle" /\ channel = 1 /\ ~heartbeat[1]
      <3>1. StartPosted
        BY <1>2 DEF LoopStartConnect, TakePosted, StartPosted, IsStart, HeartbeatInv, TypeInv, TypeOK,
                    SentTypeOK, Events, PostedClose
      <3> QED BY <2>1, <2>2, <3>1
              DEF HeartbeatInv, BudgetInv, StartBeforeAll, StartOnIdle, CurrentOnly, Fresh, Upgraded
    <2>4. HiosOwned'
      BY <1>1, <2>1, <2>2, <2>3, ClientAssumption
         DEF HiosOwned, TimerOnLive, ClosedIsClosing, LaterIsNone, OldConnectionsEnd, HioTypeOK, Gen
    <2> QED BY <2>1, <2>4 DEF ReadsLive, CleanupIsIdle, ReopensClosed
  <1>3. ASSUME NEW g \in Gen, LoopTcpConnected(g) \/ LoopHandshakeDone(g) PROVE OwnerInv'
    <2>1. /\ loop \in {"running", "stopping"} /\ loop' = loop /\ lpc' \in {"idle", "onConnection"}
          /\ io[g] \in {"connecting", "tls"}
          /\ \E p \in {"tls", "up"} : io' = [io EXCEPT ![g] = p]
          /\ status' = status \/ status' = [status EXCEPT ![g] = "CONNECTED"]
          /\ UNCHANGED <<closing, heartbeat, channel, alive>>
      BY <1>3 DEF LoopTcpConnected, LoopHandshakeDone, LoopFree, loopVars
    <2>2. g = channel /\ ~heartbeat[g]
      BY <2>1 DEF HeartbeatInv, BudgetInv, CurrentOnly, Fresh, HiosOwned, TimerOnLive
    <2>3. HiosOwned'
      BY <1>1, <2>1, <2>2
         DEF HiosOwned, TimerOnLive, ClosedIsClosing, LaterIsNone, OldConnectionsEnd, HioTypeOK, Gen, openIo
    <2> QED BY <2>1, <2>3 DEF ReadsLive, CleanupIsIdle, ReopensClosed
  <1>4. ASSUME NEW g \in Gen, LoopRead(g) PROVE OwnerInv'
    <2>1. /\ loop \in {"running", "stopping"} /\ loop' = loop /\ cur' = g /\ lpc' = "onMessage"
          /\ io[g] = "up" /\ alive[g]
          /\ UNCHANGED <<io, status, closing, heartbeat, channel, alive>>
      BY <1>4 DEF LoopRead, LoopFree, hioVars
    <2> QED BY <2>1, QuietOwned DEF ReadsLive, CleanupIsIdle, ReopensClosed
  <1>5. ASSUME NEW g \in Gen, \/ LoopConnectFails(g) \/ LoopHangup(g) \/ LoopIoError(g)
                              \/ LoopDrain(g) \/ LoopCloseTimeout(g)
        PROVE  OwnerInv'
    <2>1. /\ UNCHANGED <<channel, alive, loop, lpc>> /\ lpc = "idle"
          /\ io[g] # "none" \/ closing[g]
          /\ CloseNow(g) \/ hio_close(g) \/ UNCHANGED <<io, status, closing, heartbeat>>
      BY <1>5 DEF LoopConnectFails, LoopHangup, LoopIoError, LoopDrain, LoopCloseTimeout,
                  LoopFree, loopVars
    <2>2. HiosOwned'
      BY <1>1, <2>1, CloseOwned, QuietOwned
    <2> QED BY <2>1, <2>2 DEF ReadsLive, CleanupIsIdle, ReopensClosed
  <1>6. CASE LoopPostedClose
    <2> DEFINE g == Head(posted)[2]
    <2>1. /\ UNCHANGED <<channel, alive, loop, lpc>> /\ lpc = "idle"
          /\ (io[g] \in openIo /\ CloseNow(g)) \/ UNCHANGED hioVars
      BY <1>6 DEF LoopPostedClose, TakePosted, LoopFree, loopVars
    <2>2. g \in Gen
      BY <1>6 DEF LoopPostedClose, TakePosted, HeartbeatInv, TypeInv, TypeOK, SentTypeOK, Events, PostedClose
    <2> HIDE DEF g
    <2>3. HiosOwned'
      BY <1>1, <2>1, <2>2, CloseOwned, QuietOwned DEF hioVars, openIo
    <2> QED BY <2>1, <2>3 DEF ReadsLive, CleanupIsIdle, ReopensClosed
  <1>7. CASE LoopPostedClosesocket
    <2>1. /\ UNCHANGED <<channel, alive, loop, lpc>> /\ lpc = "idle" /\ ChannelClose(channel)
          /\ loop # "off"
      BY <1>7 DEF LoopPostedClosesocket, TakePosted, LoopFree, loopVars
    <2>2. HiosOwned'
      BY <1>1, <2>1, LoopBusy, CloseOwned
    <2> QED BY <2>1, <2>2 DEF ReadsLive, CleanupIsIdle, ReopensClosed
  <1>8. ASSUME NEW g \in Gen, LoopHeartbeat(g) PROVE OwnerInv'
    <2>1. /\ UNCHANGED <<channel, alive, loop, lpc>> /\ lpc = "idle" /\ loop # "off"
          /\ ChannelClose(channel) \/ UNCHANGED <<io, status, closing, heartbeat>>
      BY <1>8 DEF LoopHeartbeat, LoopFree, loopVars
    <2>2. HiosOwned'
      BY <1>1, <2>1, LoopBusy, CloseOwned, QuietOwned
    <2> QED BY <2>1, <2>2 DEF ReadsLive, CleanupIsIdle, ReopensClosed
  <1>9. CASE LoopLeaves \/ LoopStops
    <2>1. /\ UNCHANGED <<io, status, closing, heartbeat, channel, alive, lpc, cur>>
          /\ lpc = "idle"
      BY <1>9 DEF LoopLeaves, LoopStops, hioVars, CleanupIsIdle
    <2> QED BY <2>1, QuietOwned DEF ReadsLive, CleanupIsIdle, ReopensClosed
  <1>10. ASSUME NEW g \in Gen, LoopFreesIo(g) PROVE OwnerInv'
    <2>1. /\ UNCHANGED <<channel, alive, loop, lpc>> /\ lpc = "idle" /\ io[g] \in openIo
      BY <1>10 DEF LoopFreesIo, loopVars, CleanupIsIdle
    <2>2. HiosOwned'
      <3>1. CASE CloseNow(g)
        BY <1>1, <2>1, <3>1, CloseOwned DEF openIo
      <3>2. CASE ~CloseNow(g)
        <4>1. io' = [io EXCEPT ![g] = "freed"] /\ heartbeat' = [heartbeat EXCEPT ![g] = FALSE]
              /\ UNCHANGED <<status, closing>>
          BY <1>10, <3>2 DEF LoopFreesIo
        <4> QED BY <1>1, <2>1, <4>1
                DEF HiosOwned, TimerOnLive, ClosedIsClosing, LaterIsNone, OldConnectionsEnd, HioTypeOK, openIo
      <3> QED BY <3>1, <3>2
    <2> QED BY <2>1, <2>2 DEF ReadsLive, CleanupIsIdle, ReopensClosed
  <1> QED BY <1>2, <1>3, <1>4, <1>5, <1>6, <1>7, <1>8, <1>9, <1>10 DEF Loop

LEMMA OwnerInit == Init => OwnerInv
  <1>1. Init => HiosOwned /\ ReadsLive /\ CleanupIsIdle /\ ReopensClosed
    BY DEF Init, HiosOwned, TimerOnLive, ClosedIsClosing, LaterIsNone, OldConnectionsEnd,
           ReadsLive, CleanupIsIdle, ReopensClosed, openIo
  <1> QED BY <1>1, HeartbeatInit DEF OwnerInv

LEMMA OwnerInvHolds == Spec => []OwnerInv
  <1>1. Init => OwnerInv
    BY OwnerInit
  <1>2. OwnerInv /\ [Next]_vars => OwnerInv'
    <2> SUFFICES ASSUME OwnerInv, [Next]_vars PROVE OwnerInv'
      OBVIOUS
    <2>1. HeartbeatInv'
      BY HeartbeatStep DEF OwnerInv
    <2> QED BY <2>1, MainOwned, CallbackOwned, LoopOwned, ServerOwned DEF Next, Exited
  <1> QED BY <1>1, <1>2, PTL DEF Spec

\* No heartbeat outlives its socket, and the channel its callback uses is the
\* one it was set for.
THEOREM TimerOwnerHolds == Spec => []TimerOwner
  <1>1. OwnerInv => TimerOwner
    BY DEF OwnerInv, HiosOwned, TimerOnLive, TimerOwner, HeartbeatInv, BudgetInv, CurrentOnly
  <1> QED BY <1>1, OwnerInvHolds, PTL

\* However often the client is redirected, and wherever main and the stop come
\* in between, every connection but the last is closed or is being closed.
THEOREM OldConnectionsEndHolds == Spec => []OldConnectionsEnd
  <1>1. OwnerInv => OldConnectionsEnd
    BY DEF OwnerInv, HiosOwned
  <1> QED BY <1>1, OwnerInvHolds, PTL

-----------------------------------------------------------------------------
(* What the application is told, when no frame follows a CLOSE.             *)

CloseIsLast(s) == \A i \in DOMAIN s : s[i] = "close" => i = Len(s)

\* The server's CLOSE is the last frame it sends, and stays so in the buffer.
LastFrames ==
    /\ CloseIsLast(chunk)
    /\ \A g \in Gen : /\ CloseIsLast(inq[g])
                      /\ srv[g] # "done" => \A i \in DOMAIN inq[g] : inq[g][i] # "close"

\* Only the current channel reports, and none while a redirect replaces it.
OneReporter == /\ \A g \in Gen : notify[g] => g = channel
               /\ lpc \in {"closeOld", "reopen"} => ~notify[channel]

\* After the first callback nothing is left that connects or redirects; after
\* the last one no frame is parsed.
ToldInOrder ==
    /\ pc = "connect" => lastcb = "none"
    /\ lastcb # "none" => /\ NoneFresh
                          /\ state \in {"WS_OPENED", "WS_CLOSED"}
                          /\ lpc \in {"idle", "onMessage", "frames"}
    /\ lastcb = "onclose" => state = "WS_CLOSED" /\ lpc # "frames"
    /\ state = "WS_OPENED" \/ lpc = "frames" => lastcb \in {"onopen", "onmessage"}
    /\ \A g \in Gen : io[g] = "closed" /\ notify[g] => lastcb = "onclose"

Reports == OneReporter /\ ToldInOrder

ReportInv == OwnerInv /\ LastFrames /\ Reports

\* A buffer that is taken off the front leaves the CLOSE where it was.
LEMMA CutIsLast ==
    ASSUME NEW s \in Seq(HttpAndFrames), CloseIsLast(s)
    PROVE  /\ \A n \in 1 .. Len(s) : /\ CloseIsLast(SubSeq(s, 1, n))
                                     /\ CloseIsLast(SubSeq(s, n + 1, Len(s)))
           /\ s # << >> => CloseIsLast(Tail(s))
           /\ s # << >> /\ Head(s) = "close" => Tail(s) = << >>
  <1>1. ASSUME NEW n \in 1 .. Len(s)
        PROVE  CloseIsLast(SubSeq(s, 1, n)) /\ CloseIsLast(SubSeq(s, n + 1, Len(s)))
    <2>1. /\ Len(SubSeq(s, 1, n)) = n
          /\ \A i \in 1 .. n : SubSeq(s, 1, n)[i] = s[i]
      BY SubSeqProperties
    <2>2. /\ Len(SubSeq(s, n + 1, Len(s))) = Len(s) - n
          /\ \A i \in 1 .. Len(s) - n : SubSeq(s, n + 1, Len(s))[i] = s[n + i]
      BY SubSeqProperties
    <2> QED BY <2>1, <2>2 DEF CloseIsLast
  <1>2. ASSUME s # << >>
        PROVE  CloseIsLast(Tail(s)) /\ (Head(s) = "close" => Tail(s) = << >>)
    <2>1. /\ Tail(s) \in Seq(HttpAndFrames) /\ Len(Tail(s)) = Len(s) - 1
          /\ \A i \in 1 .. Len(s) - 1 : Tail(s)[i] = s[i + 1]
      BY <1>2, HeadTailProperties
    <2> QED BY <1>2, <2>1 DEF CloseIsLast
  <1> QED BY <1>1, <1>2

LEMMA FramesStayLast ==
    ASSUME ~LateFrames, TypeOK, TypeInv, LastFrames, [Next]_vars
    PROVE  LastFrames'
  <1> USE DEF TypeOK, WireTypeOK, LoopTypeOK
  <1>1. ASSUME NEW g \in Gen, LoopRead(g) PROVE LastFrames'
    <2>1. PICK n \in 1 .. Len(inq[g]) : /\ chunk' = SubSeq(inq[g], 1, n)
                                        /\ inq' = [inq EXCEPT ![g] = SubSeq(@, n + 1, Len(@))]
      BY <1>1 DEF LoopRead
    <2>2. /\ Len(SubSeq(inq[g], n + 1, Len(inq[g]))) = Len(inq[g]) - n
          /\ \A i \in 1 .. Len(inq[g]) - n : SubSeq(inq[g], n + 1, Len(inq[g]))[i] = inq[g][n + i]
      BY SubSeqProperties
    <2>3. srv' = srv
      BY <1>1 DEF LoopRead
    <2> QED BY <2>1, <2>2, <2>3, CutIsLast DEF LastFrames
  <1>2. ASSUME NEW g \in Gen, ServerResponds(g) \/ ServerSends(g) PROVE LastFrames'
    <2>1. PICK f \in HttpAndFrames :
             /\ inq' = [inq EXCEPT ![g] = Append(@, f)]
             /\ \A h \in Gen \ {g} : srv'[h] = srv[h]
             /\ f = "close" => srv'[g] = "done"
             /\ srv[g] # "done" /\ chunk' = chunk
      <3>1. CASE ServerResponds(g)
        BY <3>1 DEF ServerResponds, HttpAndFrames, Response, Refusal, loopVars
      <3>2. CASE ServerSends(g)
        BY <3>2 DEF ServerSends, HttpAndFrames, loopVars
      <3> QED BY <1>2, <3>1, <3>2
    <2>2. /\ Len(Append(inq[g], f)) = Len(inq[g]) + 1
          /\ \A i \in 1 .. Len(inq[g]) : Append(inq[g], f)[i] = inq[g][i]
          /\ Append(inq[g], f)[Len(inq[g]) + 1] = f
          /\ DOMAIN Append(inq[g], f) = 1 .. Len(inq[g]) + 1
          /\ DOMAIN inq[g] = 1 .. Len(inq[g]) /\ Len(inq[g]) \in Nat
      OBVIOUS
    <2> QED BY <2>1, <2>2 DEF LastFrames, CloseIsLast
  <1>3. ASSUME NEW g \in Gen, ServerHangsUp(g) PROVE LastFrames'
    BY <1>3 DEF ServerHangsUp, LastFrames, loopVars
  <1>4. CASE LoopUpgraded \/ LoopOnText \/ LoopOnPing \/ LoopOnPong \/ LoopOnClose
    <2>1. chunk # << >> /\ chunk' = Tail(chunk) /\ UNCHANGED <<inq, srv>>
      BY <1>4 DEF LoopUpgraded, LoopOnText, LoopOnPing, LoopOnPong, LoopOnClose, NextFrame,
                  InUpgrade, wireVars, TypeInv, IndexSet
    <2> QED BY <2>1, CutIsLast DEF LastFrames
  <1>5. CASE Callback /\ ~(LoopUpgraded \/ LoopOnText \/ LoopOnPing \/ LoopOnPong \/ LoopOnClose)
    <2>1. UNCHANGED <<inq, srv>> /\ chunk' \in {chunk, << >>}
      BY <1>5 DEF Callback, LoopOnConnection, LoopUpgradeRefused, LoopRedirect, LoopCloseOld,
                  LoopReopenFails, LoopReopen, LoopReopenCrashes, LoopDropBuffer, LoopFeedParser,
                  ReturnToLoop, wireVars, loopVars
    <2> QED BY <2>1 DEF LastFrames, CloseIsLast
  <1>6. CASE /\ Loop \/ Main \/ Exited \/ UNCHANGED vars
             /\ ~Callback /\ ~ \E g \in Gen : LoopRead(g)
    <2>1. UNCHANGED <<inq, srv, chunk>>
      BY <1>6
         DEF Loop, LoopStartConnect, LoopPostedClose, LoopPostedClosesocket, LoopLeaves, LoopStops,
             LoopTcpConnected, LoopHandshakeDone, LoopConnectFails, LoopHangup, LoopIoError,
             LoopDrain, LoopCloseTimeout, LoopHeartbeat, LoopFreesIo, Main, MainConnect,
             MainSeesConnected, MainSleepsInLoop, MainSend, MainWrite, MainDestroy, MainStop,
             MainJoin, Exited, vars, wireVars, loopVars
    <2> QED BY <2>1 DEF LastFrames
  <1> QED BY <1>1, <1>2, <1>3, <1>4, <1>5, <1>6 DEF Next, Server

\* A step that tells nothing and makes no connection.
LEMMA QuietReports ==
    ASSUME Reports, UNCHANGED <<lastcb, io, notify, channel>>,
           pc' = "connect" => pc = "connect",
           state' \in {state, "WS_CLOSED"}, lpc' \in {lpc, "idle", "onMessage"}
    PROVE  Reports'
  BY DEF Reports, OneReporter, ToldInOrder, NoneFresh, Fresh

\* A close, now or later: what it tells, it tells for the current channel.
LEMMA CloseReports ==
    ASSUME Reports, HioTypeOK, CurrentOnly, NEW h \in Gen, channel \in Gen,
           CloseNow(h) \/ hio_close(h) \/ ChannelClose(h),
           UNCHANGED <<pc, notify, channel>>, pc # "connect",
           \/ lpc' = "idle"
           \/ lpc = "closeOld" /\ lpc' = "reopen" /\ ~notify[h]
    PROVE  Reports'
  <1> USE DEF Reports, OneReporter, ToldInOrder, NoneFresh, Fresh
  <1>1. CASE CloseNow(h)
    <2>1. CASE notify[h]
      BY <1>1, <2>1 DEF CloseNow, on_close, CurrentOnly, HioTypeOK
    <2>2. CASE ~notify[h]
      BY <1>1, <2>2 DEF CloseNow, on_close, HioTypeOK
    <2> QED BY <2>1, <2>2
  <1>2. CASE ~CloseNow(h)
    BY <1>2 DEF hio_close, ChannelClose, CloseLater, hioVars
  <1> QED BY <1>1, <1>2

\* What callbacks do.
LEMMA CallbackReports == ASSUME ReportInv, Callback PROVE Reports'
  <1> USE DEF ReportInv, OwnerInv
  <1>1. /\ channel \in Gen /\ HioTypeOK /\ CurrentOnly /\ pc # "connect" /\ lpc # "idle"
        /\ NoneFresh /\ notify \in [Gen -> BOOLEAN] /\ channel \in 0 .. MaxChan
    <2>1. lpc # "idle"
      BY DEF Callback, LoopOnConnection, LoopUpgradeRefused, LoopUpgraded, LoopRedirect,
             LoopCloseOld, LoopReopenFails, LoopReopen, LoopReopenCrashes, LoopDropBuffer,
             LoopFeedParser, LoopOnText, LoopOnPing, LoopOnPong, LoopOnClose, InUpgrade, NextFrame
    <2> QED BY <2>1, LoopBusy
            DEF HeartbeatInv, BudgetInv, BusyNotFresh, TypeInv, TypeOK, ClientTypeOK
  <1>2. CASE LoopUpgradeRefused \/ LoopCloseOld
    <2>1. /\ ChannelClose(channel) \/ UNCHANGED hioVars
          /\ UNCHANGED <<pc, notify, channel>>
          /\ lpc' = "idle" \/ (lpc = "closeOld" /\ lpc' = "reopen")
      BY <1>2 DEF LoopUpgradeRefused, LoopCloseOld, ReturnToLoop, mainVars
    <2>2. lpc = "closeOld" => ~notify[channel]
      BY DEF Reports, OneReporter
    <2>3. CASE UNCHANGED hioVars
      BY <1>1, <2>1, <2>2, <2>3 DEF hioVars, Reports, OneReporter, ToldInOrder, NoneFresh, Fresh
    <2> QED BY <1>1, <2>1, <2>2, <2>3, CloseReports
  <1>3. CASE LoopOnClose
    <2>1. chunk # << >> /\ Head(chunk) = "close" /\ chunk \in Seq(HttpAndFrames)
      BY <1>3 DEF LoopOnClose, NextFrame, HeartbeatInv, TypeInv, IndexSet, TypeOK, LoopTypeOK
    <2>2. Tail(chunk) = << >>
      BY <2>1, CutIsLast DEF LastFrames
    <2>3. ChannelClose(channel) /\ UNCHANGED <<pc, notify, channel>> /\ lpc' = "idle"
      BY <1>3, <2>2 DEF LoopOnClose, NextFrame, mainVars
    <2> QED BY <1>1, <2>3, CloseReports
  <1>4. CASE LoopOnConnection
    <2>1. /\ lpc = "onConnection" /\ lpc' = "idle" /\ state' = "WS_UPGRADING"
          /\ UNCHANGED <<pc, io, lastcb, notify, channel>>
      BY <1>4 DEF LoopOnConnection, mainVars
    <2> QED BY <2>1 DEF Reports, OneReporter, ToldInOrder
  <1>5. CASE LoopUpgraded
    <2>1. /\ lpc = "onMessage" /\ state = "WS_UPGRADING" /\ state' = "WS_OPENED"
          /\ lastcb' = "onopen" /\ lpc' \in {"idle", "onMessage"}
          /\ UNCHANGED <<pc, io, notify, channel>>
      BY <1>5 DEF LoopUpgraded, InUpgrade, mainVars
    <2> QED BY <1>1, <2>1 DEF Reports, OneReporter, ToldInOrder, NoneFresh, Fresh
  <1>6. CASE LoopRedirect
    <2>1. /\ lpc = "onMessage" /\ state = "WS_UPGRADING" /\ lpc' = "closeOld"
          /\ notify' = [notify EXCEPT ![channel] = FALSE]
          /\ UNCHANGED <<pc, io, state, lastcb, channel>>
      BY <1>6 DEF LoopRedirect, InUpgrade, mainVars, hioVars
    <2> QED BY <1>1, <2>1 DEF Reports, OneReporter, ToldInOrder
  <1>7. CASE LoopReopen
    <2>1. /\ lpc = "reopen" /\ channel + 1 \in Gen
          /\ channel' = channel + 1 /\ lpc' = "idle" /\ state' = "CONNECTING"
          /\ notify' = [notify EXCEPT ![channel + 1] = TRUE]
          /\ \E p \in {"connecting", "idle"} : io' = [io EXCEPT ![channel + 1] = p]
          /\ UNCHANGED <<pc, lastcb>>
      BY <1>1, <1>7, ClientAssumption DEF LoopReopen, ReturnToLoop, mainVars, Gen
    <2>2. \A g \in Gen : ~notify[g]
      BY <2>1 DEF Reports, OneReporter
    <2>3. lastcb = "none"
      BY <2>1 DEF Reports, ToldInOrder
    <2> QED BY <1>1, <2>1, <2>2, <2>3 DEF Reports, OneReporter, ToldInOrder, HioTypeOK
  <1>8. CASE LoopReopenCrashes
    <2>1. /\ lpc = "reopen" /\ lpc' = "crashed" /\ pc' = "crashed"
          /\ UNCHANGED <<io, state, lastcb, notify, channel>>
      BY <1>8 DEF LoopReopenCrashes, hioVars
    <2> QED BY <2>1 DEF Reports, OneReporter, ToldInOrder
  <1>9. CASE LoopFeedParser
    <2>1. /\ lpc = "onMessage" /\ state = "WS_OPENED" /\ lpc' = "frames"
          /\ UNCHANGED <<pc, io, state, lastcb, notify, channel>>
      BY <1>9 DEF LoopFeedParser, mainVars, hioVars
    <2> QED BY <1>1, <2>1 DEF Reports, OneReporter, ToldInOrder, NoneFresh, Fresh
  <1>10. CASE LoopOnText \/ LoopOnPing \/ LoopOnPong
    <2>1. /\ lpc = "frames" /\ lpc' \in {"idle", "frames"}
          /\ lastcb' \in {lastcb, "onmessage"}
          /\ UNCHANGED <<pc, io, state, notify, channel>>
      BY <1>10 DEF LoopOnText, LoopOnPing, LoopOnPong, NextFrame, mainVars, hioVars
    <2> QED BY <1>1, <2>1 DEF Reports, OneReporter, ToldInOrder, NoneFresh, Fresh
  <1>11. CASE LoopReopenFails \/ LoopDropBuffer
    <2>1. /\ lpc' = "idle" /\ state' \in {state, "WS_CLOSED"}
          /\ UNCHANGED <<pc, io, lastcb, notify, channel>>
      BY <1>11 DEF LoopReopenFails, LoopDropBuffer, ReturnToLoop, mainVars, hioVars
    <2> QED BY <2>1, QuietReports
  <1> QED BY <1>2, <1>3, <1>4, <1>5, <1>6, <1>7, <1>8, <1>9, <1>10, <1>11 DEF Callback

\* What the loop does between callbacks.
LEMMA LoopReports == ASSUME ReportInv, Loop, ~Callback PROVE Reports'
  <1> USE DEF ReportInv, OwnerInv
  <1>1. /\ HioTypeOK /\ CurrentOnly /\ notify \in [Gen -> BOOLEAN]
        /\ loop # "off" => channel \in Gen /\ pc # "connect"
    BY LoopBusy DEF HeartbeatInv, BudgetInv, TypeInv, TypeOK, ClientTypeOK
  <1>2. CASE LoopStartConnect
    <2>1. /\ loop \in {"running", "stopping"} /\ lpc = "idle" /\ lpc' = lpc
          /\ notify' = [notify EXCEPT ![1] = TRUE]
          /\ io' = [io EXCEPT ![1] = "connecting"] \/ io' = io
          /\ UNCHANGED <<pc, state, lastcb, channel>>
      BY <1>2 DEF LoopStartConnect, TakePosted, LoopFree, mainVars
    <2>2. 1 \in Gen
      BY ClientAssumption DEF Gen
    <2>3. io[1] = "idle" /\ channel = 1
      <3>1. StartPosted
        BY <1>2 DEF LoopStartConnect, TakePosted, StartPosted, IsStart, HeartbeatInv, TypeInv, TypeOK,
                    SentTypeOK, Events, PostedClose
      <3> QED BY <2>1, <2>2, <3>1
              DEF HeartbeatInv, BudgetInv, StartBeforeAll, StartOnIdle, CurrentOnly, Fresh
    <2>4. lastcb = "none"
      BY <2>2, <2>3 DEF Reports, ToldInOrder, NoneFresh, Fresh
    <2> QED BY <1>1, <2>1, <2>2, <2>3, <2>4 DEF Reports, OneReporter, ToldInOrder, HioTypeOK
  <1>3. ASSUME NEW g \in Gen, LoopTcpConnected(g) \/ LoopHandshakeDone(g) PROVE Reports'
    <2>1. /\ lpc = "idle" /\ lpc' \in {"idle", "onConnection"}
          /\ io[g] \in {"connecting", "tls"}
          /\ \E p \in {"tls", "up"} : io' = [io EXCEPT ![g] = p]
          /\ UNCHANGED <<pc, state, lastcb, notify, channel>>
      BY <1>3 DEF LoopTcpConnected, LoopHandshakeDone, LoopFree, mainVars, loopVars
    <2>2. lastcb = "none"
      BY <2>1 DEF Reports, ToldInOrder, NoneFresh, Fresh
    <2> QED BY <1>1, <2>1, <2>2 DEF Reports, OneReporter, ToldInOrder, HioTypeOK
  <1>4. ASSUME NEW g \in Gen, \/ LoopConnectFails(g) \/ LoopHangup(g) \/ LoopIoError(g)
                              \/ LoopDrain(g) \/ LoopCloseTimeout(g)
        PROVE  Reports'
    <2>1. /\ UNCHANGED <<pc, notify, channel, lpc>> /\ lpc = "idle" /\ loop # "off"
          /\ CloseNow(g) \/ hio_close(g) \/ UNCHANGED <<io, state, lastcb>>
      BY <1>4 DEF LoopConnectFails, LoopHangup, LoopIoError, LoopDrain, LoopCloseTimeout,
                  LoopFree, mainVars, loopVars
    <2> QED BY <1>1, <2>1, CloseReports, QuietReports
  <1>5. CASE LoopPostedClose
    <2> DEFINE g == Head(posted)[2]
    <2>1. /\ UNCHANGED <<pc, notify, channel, lpc>> /\ lpc = "idle" /\ loop # "off"
          /\ CloseNow(g) \/ UNCHANGED <<io, state, lastcb>>
      BY <1>5 DEF LoopPostedClose, TakePosted, LoopFree, mainVars, loopVars, hioVars
    <2>2. g \in Gen
      BY <1>5 DEF LoopPostedClose, TakePosted, HeartbeatInv, TypeInv, TypeOK, SentTypeOK, Events, PostedClose
    <2> HIDE DEF g
    <2> QED BY <1>1, <2>1, <2>2, CloseReports, QuietReports
  <1>6. CASE LoopPostedClosesocket
    <2>1. /\ UNCHANGED <<pc, notify, channel, lpc>> /\ lpc = "idle" /\ loop # "off"
          /\ ChannelClose(channel)
      BY <1>6 DEF LoopPostedClosesocket, TakePosted, LoopFree, mainVars, loopVars
    <2> QED BY <1>1, <2>1, CloseReports
  <1>7. ASSUME NEW g \in Gen, LoopHeartbeat(g) PROVE Reports'
    <2>1. /\ UNCHANGED <<pc, notify, channel, lpc>> /\ lpc = "idle" /\ loop # "off"
          /\ ChannelClose(channel) \/ UNCHANGED <<io, state, lastcb>>
      BY <1>7 DEF LoopHeartbeat, LoopFree, mainVars, loopVars
    <2> QED BY <1>1, <2>1, CloseReports, QuietReports
  <1>8. ASSUME NEW g \in Gen, LoopRead(g) PROVE Reports'
    BY <1>8, QuietReports DEF LoopRead, mainVars, hioVars
  <1>9. CASE LoopLeaves \/ LoopStops
    BY <1>9, QuietReports DEF LoopLeaves, LoopStops, mainVars, hioVars
  <1>10. ASSUME NEW g \in Gen, LoopFreesIo(g) PROVE Reports'
    <2>1. /\ UNCHANGED <<pc, notify, channel, lpc>> /\ lpc = "idle" /\ loop # "off"
      BY <1>10 DEF LoopFreesIo, mainVars, loopVars, CleanupIsIdle
    <2>2. CASE CloseNow(g)
      BY <1>1, <2>1, <2>2, CloseReports
    <2>3. CASE io' = [io EXCEPT ![g] = "freed"] /\ UNCHANGED <<state, lastcb>>
      BY <1>1, <2>1, <2>3 DEF Reports, OneReporter, ToldInOrder, NoneFresh, Fresh, HioTypeOK
    <2> QED BY <1>10, <2>2, <2>3 DEF LoopFreesIo
  <1> QED BY <1>2, <1>3, <1>4, <1>5, <1>6, <1>7, <1>8, <1>9, <1>10 DEF Loop

\* What main and the server do.
LEMMA OthersReport ==
    ASSUME ReportInv, Main \/ Server \/ UNCHANGED vars PROVE Reports'
  <1>1. CASE MainConnect
    <2>1. /\ lpc' = lpc /\ pc' # "connect" /\ lastcb = "none" /\ lastcb' = lastcb /\ notify' = notify
          /\ lpc = "idle" /\ state' \in {"WS_CLOSED", "CONNECTING"}
          /\ channel = 0
      BY <1>1 DEF MainConnect, ReportInv, OwnerInv, HeartbeatInv, BudgetInv, Blank, BusyNotFresh,
                  Reports, ToldInOrder
    <2>2. \A g \in Gen : ~notify[g]
      BY <2>1, ClientAssumption DEF ReportInv, Reports, OneReporter, Gen
    <2> QED BY <2>1, <2>2 DEF Reports, OneReporter, ToldInOrder
  <1>2. CASE (Main /\ ~MainConnect) \/ Server \/ UNCHANGED vars
    <2>1. /\ UNCHANGED <<lastcb, io, notify, channel, lpc>> /\ state' \in {state, "WS_CLOSED"}
          /\ pc' = "connect" => pc = "connect"
      BY <1>2
         DEF Main, MainSeesConnected, MainSleepsInLoop, MainSend, MainWrite, MainDestroy, SubscribeReturns,
             MainStop, MainJoin, Server, ServerResponds, ServerSends, ServerHangsUp, vars,
             mainVars, hioVars, loopVars
    <2> QED BY <2>1, QuietReports DEF ReportInv
  <1> QED BY <1>1, <1>2

LEMMA ReportInvHolds == ASSUME ~LateFrames PROVE Spec => []ReportInv
  <1>1. Init => LastFrames /\ Reports
    BY DEF Init, LastFrames, CloseIsLast, Reports, OneReporter, ToldInOrder
  <1>2. OwnerInv /\ LastFrames /\ Reports /\ [Next]_vars => LastFrames' /\ Reports'
    <2> SUFFICES ASSUME OwnerInv, LastFrames, Reports, [Next]_vars
                 PROVE  LastFrames' /\ Reports'
      OBVIOUS
    <2>1. LastFrames'
      BY FramesStayLast DEF OwnerInv, HeartbeatInv, TypeInv
    <2>2. Reports'
      BY CallbackReports, LoopReports, OthersReport DEF ReportInv, Next, Exited
    <2> QED BY <2>1, <2>2
  <1> QED BY <1>1, <1>2, OwnerInvHolds, PTL DEF Spec, ReportInv

\* However main's calls, redirects, timeouts and errors interleave: a closed
\* connection that reports to the application has been reported, and the state
\* says opened only while the application has been told so.
THEOREM EndReportedHolds == ASSUME ~LateFrames PROVE Spec => []EndReported
  <1>1. ReportInv => EndReported
    BY DEF ReportInv, Reports, ToldInOrder, EndReported
  <1> QED BY <1>1, ReportInvHolds, PTL

\* The client implements Session: over all its connections the application sees
\* one onopen at most, messages after it, and one onclose that nothing follows.
THEOREM CallbackOrderHolds == ASSUME ~LateFrames PROVE Spec => CallbackOrder
  <1>1. Init => S!SInit
    BY DEF Init, S!SInit
  <1>2. ReportInv /\ ReportInv' /\ [Next]_vars => [S!SNext]_lastcb
    <2> SUFFICES ASSUME ReportInv, [Next]_vars, lastcb' # lastcb PROVE S!SNext
      OBVIOUS
    <2> USE DEF S!SNext, S!Opened, S!Message, S!Closed
    <2>1. ASSUME NEW g, CloseNow(g) \/ hio_close(g) \/ ChannelClose(g) PROVE S!SNext
      BY <2>1 DEF hio_close, ChannelClose, CloseNow, CloseLater, on_close, hioVars
    <2>2. CASE LoopUpgraded
      BY <2>2 DEF LoopUpgraded, InUpgrade, ReportInv, Reports, ToldInOrder
    <2>3. CASE LoopOnText
      BY <2>3 DEF LoopOnText, NextFrame, ReportInv, Reports, ToldInOrder
    <2>4. CASE LoopUpgradeRefused \/ LoopCloseOld \/ LoopOnClose \/ LoopPostedClosesocket
      BY <2>1, <2>4 DEF LoopUpgradeRefused, LoopCloseOld, LoopOnClose, LoopPostedClosesocket, hioVars
    <2>5. ASSUME NEW g \in Gen, \/ LoopConnectFails(g) \/ LoopHangup(g) \/ LoopIoError(g)
                                \/ LoopDrain(g) \/ LoopCloseTimeout(g) \/ LoopHeartbeat(g)
                                \/ LoopFreesIo(g)
          PROVE  S!SNext
      BY <2>1, <2>5 DEF LoopConnectFails, LoopHangup, LoopIoError, LoopDrain, LoopCloseTimeout,
                        LoopHeartbeat, LoopFreesIo
    <2>6. CASE LoopPostedClose
      BY <2>1, <2>6 DEF LoopPostedClose, hioVars
    <2> QED
      BY <2>2, <2>3, <2>4, <2>5, <2>6
         DEF Next, Main, MainConnect, MainSeesConnected, MainSleepsInLoop, MainSend, MainWrite,
             MainDestroy, MainStop, MainJoin, Server, ServerResponds, ServerSends, ServerHangsUp,
             Loop, Callback, LoopOnConnection, LoopRedirect, LoopReopenFails, LoopReopen,
             LoopReopenCrashes, LoopDropBuffer, LoopFeedParser, LoopOnPing, LoopOnPong, NextFrame,
             LoopStartConnect, LoopLeaves, LoopStops, LoopTcpConnected, LoopHandshakeDone, LoopRead,
             Exited, vars, hioVars
  <1> QED BY <1>1, <1>2, ReportInvHolds, PTL DEF Spec, CallbackOrder, S!SSpec

-----------------------------------------------------------------------------
(* What is sent: every subscription once, in order, and none lost while all *)
(* connections are sound.                                                   *)

\* Every id that was written is older than the one that comes next.
IdsBelow == \A g \in Gen : \A i \in DOMAIN Sent(g) : Sent(g)[i] < req

\* A socket that connects has nothing to write, and its Channel is not closed.
FreshIsNew ==
    \A g \in Gen : Fresh(g) => wq[g] = Nothing /\ status[g] \in {"OPENED", "CONNECTING"}

LaterIsNew == \A g \in Gen : g > channel => wq[g] = Nothing /\ status[g] = "NULL"

PostedIsMade == \A g \in Gen : CloseIsPosted(g) => io[g] # "none"

ChannelIsMade == channel # 0 => io[channel] # "none"

AllSound == \A g \in Gen : ~Failing(g)

\* The channel that main found connected is still the one it writes to.
Sending ==
    AllSound /\ pc \in {"send", "write"} =>
        /\ channel # 0 /\ io[channel] = "up" /\ status[channel] = "CONNECTED"
        /\ pc = "write" => held = channel

Conns == FreshIsNew /\ LaterIsNew /\ PostedIsMade /\ ChannelIsMade

SentInv == OwnerInv /\ Conns /\ IdsBelow /\ RequestOrder /\ Sending /\ LostOnlyWithConnection

(* The kinds of step, told by what they do to the connections.              *)

ClosesStay == \A g \in Gen : CloseIsPosted(g)' <=> CloseIsPosted(g)

MainStays == UNCHANGED <<req, held>> /\ (pc' \in {"send", "write"} => pc' = pc)

Others(h) == \A g \in Gen \ {h} : /\ io'[g] = io[g] /\ status'[g] = status[g]
                                  /\ closing'[g] = closing[g]
                                  /\ wq'[g] = wq[g] /\ out'[g] = out[g]
                                  /\ CloseIsPosted(g)' <=> CloseIsPosted(g)

Rests == /\ UNCHANGED <<io, status, closing, channel, out, wq>> /\ ClosesStay
         /\ MainStays \/ MainSeesConnected \/ MainSend

\* Hio h is closed, freed, or marked to be.
Shuts(h) == /\ MainStays /\ UNCHANGED channel /\ h <= channel /\ Others(h)
            /\ status'[h] \in {status[h], "CLOSED"} /\ wq'[h] \in {wq[h], Nothing}
            /\ \/ out'[h] = out[h]
               \/ out'[h] = out[h] \o wq[h].data /\ wq'[h] = Nothing
            /\ CloseIsPosted(h)' => CloseIsPosted(h)
            /\ \/ io'[h] \in {"closed", "freed"}
               \/ io'[h] = io[h] /\ closing'[h] /\ ~Fresh(h)

Drains(h) == /\ MainStays /\ ClosesStay
             /\ UNCHANGED <<io, status, closing, channel>>
             /\ out' = [out EXCEPT ![h] = @ \o wq[h].data]
             /\ wq' = [wq EXCEPT ![h] = Nothing]

\* Connection h is made, behind one that has ended.
Makes(h) == /\ MainStays /\ channel' = h /\ h = channel + 1 /\ Others(h)
            /\ channel # 0 => Failing(channel)
            /\ pc \notin {"send", "write"} \/ channel # 0
            /\ io'[h] \in {"idle", "connecting"} /\ status'[h] \in {"OPENED", "CONNECTING"}
            /\ wq'[h] = wq[h] /\ out'[h] = out[h]

Advances(h) == /\ MainStays /\ UNCHANGED <<channel, out, wq>> /\ h = channel /\ Fresh(h)
               /\ Others(h) /\ closing' = closing
               /\ CloseIsPosted(h) => CloseIsPosted(h)'
               /\ \/ io'[h] \in {"idle", "connecting"} /\ status'[h] = "CONNECTING"
                  \/ io'[h] = "tls" /\ status'[h] = status[h]
                  \/ io'[h] = "up" /\ status'[h] = "CONNECTED"

Writes(h) == /\ UNCHANGED <<io, status, closing, channel>>
             /\ \/ MainStays /\ hio_write(h, Control)
                \/ MainStays /\ hio_write(h, Data(UPGRADE))
                \/ h = held /\ pc = "write" /\ hio_write(h, Data(req)) /\ SubscribeReturns

Kind == \/ Rests
        \/ \E h \in Gen : Shuts(h) \/ Drains(h) \/ Makes(h) \/ Advances(h) \/ Writes(h)

\* A close of g is among the events of s.
CloseIn(s, g) == \E i \in DOMAIN s : s[i] = PostedClose(g)

LEMMA InAppend ==
    ASSUME NEW s \in Seq(Events), NEW e \in Events, NEW g
    PROVE  CloseIn(Append(s, e), g) <=> CloseIn(s, g) \/ e = PostedClose(g)
  <1> DEFINE t == Append(s, e)
  <1>1. /\ DOMAIN t = 1 .. (Len(s) + 1) /\ DOMAIN s = 1 .. Len(s)
        /\ Len(s) \in Nat
        /\ t[Len(s) + 1] = e
        /\ \A i \in 1 .. Len(s) : t[i] = s[i]
    OBVIOUS
  <1> HIDE DEF t
  <1>2. CloseIn(t, g) <=> CloseIn(s, g) \/ e = PostedClose(g)
    BY <1>1 DEF CloseIn
  <1> QED BY <1>2 DEF t

LEMMA InTail ==
    ASSUME NEW s \in Seq(Events), s # << >>, NEW g
    PROVE  CloseIn(s, g) <=> CloseIn(Tail(s), g) \/ Head(s) = PostedClose(g)
  <1> DEFINE t == Tail(s)
  <1>1. /\ DOMAIN t = 1 .. (Len(s) - 1) /\ DOMAIN s = 1 .. Len(s)
        /\ Len(s) \in Nat /\ Len(s) >= 1
        /\ s[1] = Head(s)
        /\ \A i \in 1 .. (Len(s) - 1) : t[i] = s[i + 1]
    OBVIOUS
  <1> HIDE DEF t
  <1>2. ASSUME CloseIn(s, g) PROVE CloseIn(t, g) \/ Head(s) = PostedClose(g)
    <2>1. PICK i \in 1 .. Len(s) : s[i] = PostedClose(g)
      BY <1>1, <1>2 DEF CloseIn
    <2>2. CASE i = 1
      BY <1>1, <2>1, <2>2
    <2>3. CASE i # 1
      <3>1. i - 1 \in DOMAIN t /\ t[i - 1] = s[i]
        BY <1>1, <2>1, <2>3
      <3> QED BY <2>1, <3>1 DEF CloseIn
    <2> QED BY <2>2, <2>3
  <1>3. ASSUME CloseIn(t, g) \/ Head(s) = PostedClose(g) PROVE CloseIn(s, g)
    <2>1. CASE Head(s) = PostedClose(g)
      BY <1>1, <2>1 DEF CloseIn
    <2>2. CASE CloseIn(t, g)
      <3>1. PICK i \in 1 .. (Len(s) - 1) : t[i] = PostedClose(g)
        BY <1>1, <2>2 DEF CloseIn
      <3>2. i + 1 \in DOMAIN s /\ s[i + 1] = PostedClose(g)
        BY <1>1, <3>1
      <3> QED BY <3>2 DEF CloseIn
    <2> QED BY <1>3, <2>1, <2>2
  <1> QED BY <1>2, <1>3 DEF t

\* What a post, or taking up an event, does to the closes that are posted.
LEMMA PostedIn == \A g \in Gen : /\ CloseIsPosted(g) <=> CloseIn(posted, g)
                                 /\ CloseIsPosted(g)' <=> CloseIn(posted', g)
  BY DEF CloseIsPosted, CloseIn, PostedClose

LEMMA CloseNames == \A g, h \in Gen : PostedClose(g) = PostedClose(h) => g = h
  BY DEF PostedClose

LEMMA QuietCloses == ASSUME UNCHANGED posted PROVE ClosesStay
  BY PostedIn DEF ClosesStay

LEMMA OtherPosted ==
    ASSUME posted \in Seq(Events), posted' = Append(posted, <<"closesocket", 0>>)
    PROVE  ClosesStay
  <1>1. \A g \in Gen : <<"closesocket", 0>> # PostedClose(g)
    BY DEF PostedClose
  <1> QED BY <1>1, InAppend, EventTypes, PostedIn DEF ClosesStay

LEMMA OtherTaken ==
    ASSUME posted \in Seq(Events), posted # << >>, posted' = Tail(posted),
           Head(posted)[1] # "hio_close"
    PROVE  ClosesStay
  <1>1. \A g \in Gen : Head(posted) # PostedClose(g)
    BY DEF PostedClose
  <1> QED BY <1>1, InTail, PostedIn DEF ClosesStay

LEMMA CloseKind ==
    ASSUME HioTypeOK, FreshIsNew, NEW h \in Gen, h <= channel,
           CloseNow(h) \/ hio_close(h) \/ ChannelClose(h),
           UNCHANGED <<channel, out>>, MainStays, ClosesStay
    PROVE  Shuts(h) \/ Rests
  <1> USE DEF HioTypeOK, ClosesStay
  <1>1. CASE UNCHANGED hioVars
    BY <1>1 DEF hioVars, Rests
  <1>2. CASE CloseNow(h)
    BY <1>2 DEF CloseNow, close_timers, on_close, Shuts, Others
  <1>3. CASE ~ClosesAtOnce(h) /\ CloseLater(h)
             /\ (UNCHANGED status \/ status' = [status EXCEPT ![h] = "CLOSED"])
    <2>1. ~Fresh(h)
      BY <1>3 DEF ClosesAtOnce, FreshIsNew
    <2> QED BY <1>3, <2>1 DEF CloseLater, Shuts, Others
  <1> QED BY <1>1, <1>2, <1>3 DEF hio_close, ChannelClose

LEMMA MainKind == ASSUME SentInv, Main PROVE Kind
  <1> USE DEF SentInv, OwnerInv, HeartbeatInv, TypeInv, TypeOK
  <1>1. CASE MainConnect
    <2>1. channel = 0 /\ posted = << >> /\ pc = "connect" /\ pc' = "wait" /\ 1 \in Gen
      BY <1>1, ClientAssumption DEF MainConnect, BudgetInv, Blank, NoChannel, Gen
    <2>2. MainStays
      BY <1>1, <2>1 DEF MainConnect, MainStays
    <2>3. CASE UNCHANGED <<channel, status, io, posted>>
      BY <1>1, <2>2, <2>3, QuietCloses DEF MainConnect, Kind, Rests
    <2>4. CASE ~ UNCHANGED <<channel, status, io, posted>>
      <3>1. /\ channel' = 1 /\ status' = [status EXCEPT ![1] = "OPENED"]
            /\ io' = [io EXCEPT ![1] = "idle"] /\ UNCHANGED <<closing, wq, out>>
            /\ posted' = << <<"startConnect", 1>> >>
        BY <1>1, <2>4 DEF MainConnect
      <3>2. ClosesStay
        BY <2>1, <3>1 DEF ClosesStay, CloseIsPosted, PostedClose
      <3>3. Makes(1)
        BY <2>1, <2>2, <3>1, <3>2 DEF Makes, Others, ClosesStay, HioTypeOK
      <3> QED BY <2>1, <3>3 DEF Kind
    <2> QED BY <2>3, <2>4
  <1>2. CASE MainSeesConnected \/ MainSend
    BY <1>2, QuietCloses DEF MainSeesConnected, MainSend, hioVars, Kind, Rests
  <1>3. CASE MainSleepsInLoop \/ MainJoin
    BY <1>3, QuietCloses DEF MainSleepsInLoop, MainJoin, vars, mainVars, hioVars, Kind, Rests, MainStays
  <1>4. CASE MainWrite
    <2>1. held \in Gen
      BY <1>4, ClientAssumption DEF MainWrite, IndexSet, MainTypeOK, Gen
    <2>2. Writes(held)
      BY <1>4 DEF MainWrite, Writes
    <2> QED BY <2>1, <2>2 DEF Kind
  <1>5. CASE MainDestroy \/ MainStop
    <2>1. posted' = posted \/ posted' = Append(posted, <<"closesocket", 0>>)
      BY <1>5 DEF MainDestroy, MainStop
    <2>2. ClosesStay
      BY <2>1, QuietCloses, OtherPosted DEF SentTypeOK
    <2>3. UNCHANGED <<io, status, closing, channel, out, wq>> /\ MainStays
      BY <1>5 DEF MainDestroy, MainStop, hioVars, MainStays
    <2> QED BY <2>2, <2>3 DEF Kind, Rests
  <1> QED BY <1>1, <1>2, <1>3, <1>4, <1>5 DEF Main

LEMMA CallbackKind == ASSUME SentInv, Callback PROVE Kind
  <1> USE DEF SentInv, OwnerInv, HeartbeatInv, TypeInv, TypeOK
  <1>1. /\ channel \in Gen /\ channel <= channel /\ FreshIsNew /\ posted \in Seq(Events)
        /\ lpc # "idle" /\ HioTypeOK
    <2>1. lpc # "idle"
      BY DEF Callback, LoopOnConnection, LoopUpgradeRefused, LoopUpgraded, LoopRedirect,
             LoopCloseOld, LoopReopenFails, LoopReopen, LoopReopenCrashes, LoopDropBuffer,
             LoopFeedParser, LoopOnText, LoopOnPing, LoopOnPong, LoopOnClose, InUpgrade, NextFrame
    <2> QED BY <2>1, LoopBusy, ClientAssumption DEF Conns, SentTypeOK, ClientTypeOK, Gen
  <1>2. CASE LoopOnConnection
    <2>1. cur \in Gen /\ Writes(cur)
      BY <1>2, ClientAssumption DEF LoopOnConnection, Writes, MainStays, mainVars, IndexSet, LoopTypeOK, Gen
    <2> QED BY <2>1 DEF Kind
  <1>3. CASE LoopOnPing
    <2>1. /\ MainStays /\ UNCHANGED <<io, status, closing, channel>> /\ WriteControl
      BY <1>3 DEF LoopOnPing, NextFrame, MainStays, mainVars
    <2>2. Writes(channel) \/ Rests
      BY <2>1, QuietCloses DEF WriteControl, Writes, Rests
    <2> QED BY <1>1, <2>2 DEF Kind
  <1>4. CASE LoopUpgradeRefused \/ LoopOnClose \/ (LoopCloseOld /\ loop = "running")
    <2>1. /\ MainStays /\ UNCHANGED <<channel, out, posted>> /\ ChannelClose(channel)
      BY <1>4 DEF LoopUpgradeRefused, LoopOnClose, LoopCloseOld, NextFrame, MainStays, mainVars
    <2>2. Shuts(channel) \/ Rests
      BY <1>1, <2>1, QuietCloses, CloseKind
    <2> QED BY <1>1, <2>2 DEF Kind
  <1>5. CASE LoopReopen
    <2> DEFINE new == channel + 1
    <2>1. /\ lpc = "reopen" /\ loop = "running" /\ new \in Gen /\ channel' = new /\ MainStays
          /\ status' = [status EXCEPT ![new] = "CONNECTING"] /\ UNCHANGED <<closing, wq, out>>
          /\ \/ io' = [io EXCEPT ![new] = "connecting"] /\ UNCHANGED posted
             \/ io' = [io EXCEPT ![new] = "idle"] /\ posted' = Append(posted, PostedClose(new))
      BY <1>1, <1>5, ClientAssumption DEF LoopReopen, MainStays, mainVars, Gen
    <2>2. channel # 0 /\ Failing(channel)
      BY <1>1, <2>1 DEF ReopensClosed, Failing, Conns, ChannelIsMade, HioTypeOK, Gen
    <2>3. \A g \in Gen \ {new} : CloseIsPosted(g)' <=> CloseIsPosted(g)
      <3>1. CASE UNCHANGED posted
        BY <3>1, QuietCloses DEF ClosesStay
      <3>2. CASE posted' = Append(posted, PostedClose(new))
        <4>1. PostedClose(new) \in Events
          BY <2>1, EventTypes
        <4> QED BY <1>1, <2>1, <3>2, <4>1, InAppend, PostedIn, CloseNames
      <3> QED BY <2>1, <3>1, <3>2
    <2>4. Makes(new)
      BY <1>1, <2>1, <2>2, <2>3 DEF Makes, Others, HioTypeOK
    <2> QED BY <2>1, <2>4 DEF Kind
  <1>6. CASE LoopUpgraded \/ LoopRedirect \/ LoopReopenFails \/ LoopReopenCrashes
    <2>1. /\ UNCHANGED <<io, status, closing, channel, out, wq, posted, req, held>>
          /\ UNCHANGED pc \/ pc' = "crashed"
      BY <1>6 DEF LoopUpgraded, LoopRedirect, LoopReopenFails, LoopReopenCrashes, mainVars, hioVars
    <2> QED BY <2>1, QuietCloses DEF Kind, Rests, MainStays
  <1>7. CASE LoopDropBuffer \/ LoopFeedParser \/ (LoopCloseOld /\ loop # "running")
    <2>1. UNCHANGED <<io, status, closing, channel, out, wq, posted, req, held, pc>>
      BY <1>7 DEF LoopDropBuffer, LoopFeedParser, LoopCloseOld, mainVars, hioVars
    <2> QED BY <2>1, QuietCloses DEF Kind, Rests, MainStays
  <1>8. CASE LoopOnText \/ LoopOnPong
    <2>1. UNCHANGED <<io, status, closing, channel, out, wq, posted, req, held, pc>>
      BY <1>8 DEF LoopOnText, LoopOnPong, NextFrame, mainVars, hioVars
    <2> QED BY <2>1, QuietCloses DEF Kind, Rests, MainStays
  <1> QED BY <1>2, <1>3, <1>4, <1>5, <1>6, <1>7, <1>8 DEF Callback

LEMMA LoopKind == ASSUME SentInv, Loop, ~Callback PROVE Kind
  <1> USE DEF SentInv, OwnerInv, HeartbeatInv, TypeInv, TypeOK
  <1>1. /\ HioTypeOK /\ FreshIsNew /\ posted \in Seq(Events) /\ channel \in 0 .. MaxChan
        /\ \A g \in Gen : io[g] # "none" \/ closing[g] => g <= channel
    BY ClientAssumption DEF Conns, SentTypeOK, ClientTypeOK, HiosOwned, LaterIsNone, Gen
  <1>2. CASE LoopStartConnect
    <2>1. /\ loop \in {"running", "stopping"} /\ posted # << >> /\ MainStays
          /\ Head(posted)[1] = "startConnect"
          /\ status' = [status EXCEPT ![1] = "CONNECTING"]
          /\ \/ io' = [io EXCEPT ![1] = "connecting"] /\ posted' = Tail(posted)
             \/ io' = io /\ posted' = Append(Tail(posted), PostedClose(1))
          /\ UNCHANGED <<closing, channel, out, wq>>
      BY <1>2 DEF LoopStartConnect, TakePosted, LoopFree, MainStays, mainVars
    <2>2. 1 \in Gen
      BY ClientAssumption DEF Gen
    <2>3. io[1] = "idle" /\ channel = 1
      <3>1. StartPosted
        BY <1>1, <2>1 DEF StartPosted, IsStart, Events, PostedClose
      <3> QED BY <2>1, <2>2, <3>1 DEF BudgetInv, StartBeforeAll, StartOnIdle, CurrentOnly, Fresh
    <2>4. \A g \in Gen : /\ CloseIsPosted(g) => CloseIsPosted(g)'
                         /\ g # 1 /\ CloseIsPosted(g)' => CloseIsPosted(g)
      <3>1. \A g \in Gen : Head(posted) # PostedClose(g)
        BY <2>1 DEF PostedClose
      <3>2. CASE posted' = Tail(posted)
        BY <1>1, <2>1, <3>1, <3>2, InTail, PostedIn
      <3>3. CASE posted' = Append(Tail(posted), PostedClose(1))
        <4>1. Tail(posted) \in Seq(Events) /\ PostedClose(1) \in Events
          BY <1>1, <2>1, <2>2, EventTypes
        <4>2. \A g \in Gen : CloseIn(posted', g) <=> CloseIn(posted, g) \/ PostedClose(1) = PostedClose(g)
          BY <1>1, <2>1, <3>1, <3>3, <4>1, InTail, InAppend
        <4> QED BY <2>2, <4>2, PostedIn, CloseNames
      <3> QED BY <2>1, <3>2, <3>3
    <2>5. Advances(1)
      BY <1>1, <2>1, <2>2, <2>3, <2>4 DEF Advances, Others, HioTypeOK, Fresh
    <2> QED BY <2>2, <2>5 DEF Kind
  <1>3. ASSUME NEW g \in Gen, LoopTcpConnected(g) \/ LoopHandshakeDone(g) PROVE Kind
    <2>1. /\ MainStays /\ UNCHANGED <<channel, out, wq, closing, posted>>
          /\ io[g] \in {"connecting", "tls"}
          /\ \/ io' = [io EXCEPT ![g] = "tls"] /\ status' = status
             \/ io' = [io EXCEPT ![g] = "up"] /\ status' = [status EXCEPT ![g] = "CONNECTED"]
      BY <1>3 DEF LoopTcpConnected, LoopHandshakeDone, MainStays, mainVars
    <2>2. g = channel
      BY <2>1 DEF BudgetInv, CurrentOnly, Fresh
    <2>3. Advances(g)
      BY <1>1, <2>1, <2>2, QuietCloses DEF Advances, Others, ClosesStay, HioTypeOK, Fresh
    <2> QED BY <2>3 DEF Kind
  <1>4. ASSUME NEW g \in Gen, LoopRead(g) PROVE Kind
    BY <1>4, QuietCloses DEF LoopRead, Kind, Rests, MainStays, mainVars, hioVars
  <1>5. ASSUME NEW g \in Gen, LoopConnectFails(g) \/ LoopHangup(g) \/ LoopIoError(g) \/ LoopCloseTimeout(g)
        PROVE  Kind
    <2>1. /\ MainStays /\ UNCHANGED <<channel, out, posted>>
          /\ io[g] # "none" \/ closing[g]
          /\ CloseNow(g) \/ hio_close(g)
      BY <1>5 DEF LoopConnectFails, LoopHangup, LoopIoError, LoopCloseTimeout, MainStays, mainVars
    <2>2. Shuts(g) \/ Rests
      BY <1>1, <2>1, QuietCloses, CloseKind
    <2> QED BY <2>2 DEF Kind
  <1>6. ASSUME NEW g \in Gen, LoopDrain(g) PROVE Kind
    <2>1. /\ MainStays /\ ClosesStay /\ UNCHANGED channel /\ io[g] = "up"
          /\ out' = [out EXCEPT ![g] = @ \o wq[g].data]
      BY <1>6, QuietCloses DEF LoopDrain, ToSocket, MainStays, mainVars
    <2>2. CASE CloseNow(g)
      <3>1. Shuts(g)
        BY <1>1, <2>1, <2>2
           DEF CloseNow, close_timers, on_close, Shuts, Others, ClosesStay, HioTypeOK, SentTypeOK
      <3> QED BY <3>1 DEF Kind
    <2>3. CASE ~CloseNow(g)
      BY <1>6, <2>1, <2>3 DEF LoopDrain, Kind, Drains
    <2> QED BY <2>2, <2>3
  <1>7. CASE LoopPostedClose
    <2>0. /\ MainStays /\ UNCHANGED <<channel, out>> /\ posted # << >> /\ posted' = Tail(posted)
          /\ Head(posted)[1] = "hio_close"
          /\ LET g == Head(posted)[2]
             IN  (io[g] \in openIo /\ CloseNow(g)) \/ (io[g] \notin openIo /\ UNCHANGED hioVars)
      BY <1>7 DEF LoopPostedClose, TakePosted, MainStays, mainVars
    <2>1. PICK g \in Gen : Head(posted) = PostedClose(g)
      BY <1>1, <2>0 DEF Events, PostedClose
    <2>2. (io[g] \in openIo /\ CloseNow(g)) \/ (io[g] \notin openIo /\ UNCHANGED hioVars)
      BY <2>0, <2>1 DEF PostedClose
    <2>3. CloseIsPosted(g)
      BY <1>1, <2>0, <2>1, InTail, PostedIn
    <2>4. \A h \in Gen : /\ CloseIsPosted(h)' => CloseIsPosted(h)
                         /\ h # g /\ CloseIsPosted(h) => CloseIsPosted(h)'
      BY <1>1, <2>0, <2>1, InTail, PostedIn, CloseNames
    <2>5. io[g] # "none"
      BY <2>3 DEF Conns, PostedIsMade
    <2>6. g <= channel
      BY <1>1, <2>5
    <2>7. /\ \/ io' = [io EXCEPT ![g] = "closed"]
             \/ io' = io /\ io[g] \in {"closed", "freed"}
          /\ status' = status \/ status' = [status EXCEPT ![g] = "CLOSED"]
          /\ closing' = closing \/ closing' = [closing EXCEPT ![g] = FALSE]
          /\ wq' = wq \/ wq' = [wq EXCEPT ![g] = Nothing]
      <3>1. CASE io[g] \in openIo /\ CloseNow(g)
        BY <3>1 DEF CloseNow, close_timers, on_close
      <3>2. CASE io[g] \notin openIo /\ UNCHANGED hioVars
        BY <1>1, <2>5, <3>2 DEF hioVars, HioTypeOK
      <3> QED BY <2>2, <3>1, <3>2
    <2>8. Others(g)
      BY <1>1, <2>0, <2>4, <2>7 DEF Others, HioTypeOK
    <2>9. Shuts(g)
      <3>1. status'[g] \in {status[g], "CLOSED"} /\ wq'[g] \in {wq[g], Nothing}
            /\ io'[g] \in {"closed", "freed"} /\ out'[g] = out[g]
        BY <1>1, <2>0, <2>7 DEF HioTypeOK
      <3>2. MainStays /\ UNCHANGED channel /\ (CloseIsPosted(g)' => CloseIsPosted(g))
        BY <2>0, <2>4
      <3> QED BY <2>6, <2>8, <3>1, <3>2 DEF Shuts
    <2> QED BY <2>9 DEF Kind
  <1>8. CASE LoopPostedClosesocket
    <2>1. /\ MainStays /\ UNCHANGED <<channel, out>> /\ posted # << >> /\ posted' = Tail(posted)
          /\ Head(posted)[1] = "closesocket" /\ ChannelClose(channel) /\ loop # "off"
      BY <1>8 DEF LoopPostedClosesocket, TakePosted, LoopFree, MainStays, mainVars
    <2>2. channel \in Gen /\ channel <= channel
      BY <2>1, LoopBusy, ClientAssumption DEF Gen
    <2>3. Shuts(channel) \/ Rests
      BY <1>1, <2>1, <2>2, OtherTaken, CloseKind
    <2> QED BY <2>2, <2>3 DEF Kind
  <1>9. ASSUME NEW g \in Gen, LoopHeartbeat(g) PROVE Kind
    <2>1. /\ MainStays /\ UNCHANGED channel /\ loop # "off"
          /\ \/ ChannelClose(channel) /\ UNCHANGED <<out, posted>>
             \/ WriteControl /\ UNCHANGED <<status, io, closing>>
      BY <1>9 DEF LoopHeartbeat, LoopFree, MainStays, mainVars
    <2>2. channel \in Gen /\ channel <= channel
      BY <2>1, LoopBusy, ClientAssumption DEF Gen
    <2>3. Shuts(channel) \/ Rests \/ Writes(channel)
      BY <1>1, <2>1, <2>2, QuietCloses, CloseKind DEF WriteControl, Writes, Rests
    <2> QED BY <2>2, <2>3 DEF Kind
  <1>10. CASE LoopLeaves \/ LoopStops
    BY <1>10, QuietCloses DEF LoopLeaves, LoopStops, Kind, Rests, MainStays, mainVars, hioVars
  <1>11. ASSUME NEW g \in Gen, LoopFreesIo(g) PROVE Kind
    <2>1. /\ MainStays /\ UNCHANGED <<channel, out, posted>> /\ io[g] \in openIo
          /\ \/ CloseNow(g)
             \/ io' = [io EXCEPT ![g] = "freed"] /\ UNCHANGED <<status, closing, wq>>
      BY <1>11 DEF LoopFreesIo, MainStays, mainVars
    <2>2. g <= channel
      BY <1>1, <2>1 DEF openIo
    <2>3. Shuts(g) \/ Rests
      <3>1. CASE CloseNow(g)
        BY <1>1, <2>1, <2>2, <3>1, QuietCloses, CloseKind
      <3>2. CASE io' = [io EXCEPT ![g] = "freed"] /\ UNCHANGED <<status, closing, wq>>
        BY <1>1, <2>1, <2>2, <3>2, QuietCloses DEF Shuts, Others, ClosesStay, HioTypeOK
      <3> QED BY <2>1, <3>1, <3>2
    <2> QED BY <2>3 DEF Kind
  <1> QED BY <1>2, <1>3, <1>4, <1>5, <1>6, <1>7, <1>8, <1>9, <1>10, <1>11 DEF Loop

LEMMA ServerKind == ASSUME Server \/ UNCHANGED vars PROVE Kind
  <1>1. UNCHANGED <<io, status, closing, channel, out, wq, posted>> /\ MainStays
    BY DEF Server, ServerResponds, ServerSends, ServerHangsUp, vars, hioVars, mainVars, MainStays
  <1> QED BY <1>1, QuietCloses DEF Kind, Rests
LEMMA StepKind == ASSUME SentInv, [Next]_vars PROVE Kind
  BY MainKind, CallbackKind, LoopKind, ServerKind DEF Next, Exited

\* What a write does: nothing, a failure that posts the close, or one more item.
WriteFailed(h) == /\ UNCHANGED <<out, wq>> /\ io[h] = "up" /\ CloseIsPosted(h)'
                  /\ \A g \in Gen \ {h} : CloseIsPosted(g)' <=> CloseIsPosted(g)
                  /\ \A g \in Gen : CloseIsPosted(g) => CloseIsPosted(g)'

WriteTaken(h, item) == /\ io[h] = "up" /\ ClosesStay
                       /\ \A g \in Gen \ {h} : out'[g] = out[g] /\ wq'[g] = wq[g]
                       /\ Sent(h)' = Sent(h) \o item.data

LEMMA WriteEffect ==
    ASSUME HioTypeOK, SentTypeOK, NEW h \in Gen, NEW item \in Items, hio_write(h, item)
    PROVE  \/ io[h] # "up" /\ UNCHANGED <<out, wq>> /\ ClosesStay
           \/ WriteFailed(h)
           \/ WriteTaken(h, item)
  <1> DEFINE D == Ids \cup {UPGRADE}
  <1>1. out[h] \in Seq(D) /\ wq[h].data \in Seq(D) /\ item.data \in Seq(D)
    BY DEF HioTypeOK, SentTypeOK, Items
  <1> HIDE DEF D
  <1>2. CASE io[h] # "up"
    BY <1>2, QuietCloses DEF hio_write
  <1>3. CASE io[h] = "up" /\ WriteFails(h)
    <2>1. \A g \in Gen : CloseIsPosted(g)' <=> CloseIsPosted(g) \/ PostedClose(h) = PostedClose(g)
      BY <1>3, InAppend, PostedIn, EventTypes DEF WriteFails, SentTypeOK
    <2> QED BY <1>3, <2>1, CloseNames DEF WriteFails, WriteFailed
  <1>4. CASE io[h] = "up" /\ wq[h] = Nothing /\ ToSocket(h, item) /\ UNCHANGED <<wq, posted>>
    <2>1. out'[h] = out[h] \o item.data /\ wq'[h].data = << >> /\ wq[h].data = << >>
      BY <1>4 DEF ToSocket, Nothing, SentTypeOK
    <2>2. out[h] \o item.data \in Seq(D)
      BY <1>1
    <2>3. Sent(h)' = Sent(h) \o item.data
      BY <1>1, <2>1, <2>2, ConcatEmptySeq DEF Sent
    <2> QED BY <1>4, <2>3, QuietCloses DEF ToSocket, WriteTaken, SentTypeOK
  <1>5. CASE io[h] = "up" /\ Enqueue(h, item) /\ UNCHANGED <<out, posted>>
    <2>1. wq'[h].data = wq[h].data \o item.data
      BY <1>5 DEF Enqueue, HioTypeOK
    <2>2. Sent(h)' = Sent(h) \o item.data
      <3>1. (out[h] \o wq[h].data) \o item.data = out[h] \o (wq[h].data \o item.data)
        <4>1. \A s, t, u \in Seq(D) : (s \o t) \o u = s \o (t \o u)
          BY ConcatAssociative
        <4> QED BY <1>1, <4>1
      <3>2. out'[h] = out[h]
        BY <1>5
      <3> QED BY <2>1, <3>1, <3>2 DEF Sent
    <2> QED BY <1>5, <2>2, QuietCloses DEF Enqueue, WriteTaken, HioTypeOK
  <1> QED BY <1>2, <1>3, <1>4, <1>5 DEF hio_write, Written

\* The item of each kind of write.
LEMMA WritesItem ==
    ASSUME TypeInv, NEW h \in Gen, Writes(h)
    PROVE  \E item \in Items :
              /\ \/ io[h] # "up" /\ UNCHANGED <<out, wq>> /\ ClosesStay
                 \/ WriteFailed(h)
                 \/ WriteTaken(h, item)
              /\ \/ MainStays /\ item \in {Control, Data(UPGRADE)}
                 \/ h = held /\ pc = "write" /\ item = Data(req) /\ SubscribeReturns
  <1>1. Control \in Items /\ Data(UPGRADE) \in Items
    BY ItemTypes
  <1>2. CASE MainStays /\ \E item \in {Control, Data(UPGRADE)} : hio_write(h, item)
    BY <1>1, <1>2, WriteEffect DEF TypeInv, TypeOK
  <1>3. CASE h = held /\ pc = "write" /\ hio_write(h, Data(req)) /\ SubscribeReturns
    <2>1. Data(req) \in Items
      BY <1>3, ItemTypes, ClientAssumption DEF TypeInv, ReqBound, TypeOK, MainTypeOK, Ids
    <2> QED BY <1>3, <2>1, WriteEffect DEF TypeInv, TypeOK
  <1> QED BY <1>2, <1>3 DEF Writes

\* A connection that has failed stays failed.
LEMMA FailingStays == ASSUME SentInv, Kind, NEW g \in Gen, Failing(g) PROVE Failing(g)'
  <1> USE DEF SentInv, OwnerInv, HeartbeatInv, TypeInv, TypeOK, Failing
  <1>1. CASE Rests
    BY <1>1 DEF Rests, ClosesStay
  <1>2. ASSUME NEW h \in Gen, Shuts(h) PROVE Failing(g)'
    BY <1>2 DEF Shuts, Others
  <1>3. ASSUME NEW h \in Gen, Drains(h) PROVE Failing(g)'
    BY <1>3 DEF Drains, ClosesStay
  <1>4. ASSUME NEW h \in Gen, Makes(h) PROVE Failing(g)'
    <2>1. h > channel
      BY <1>4 DEF Makes, ClientTypeOK
    <2>2. ~Failing(h)
      BY <2>1 DEF Conns, LaterIsNew, PostedIsMade, HiosOwned, LaterIsNone
    <2> QED BY <1>4, <2>2 DEF Makes, Others
  <1>5. ASSUME NEW h \in Gen, Advances(h) PROVE Failing(g)'
    <2>1. CASE g # h
      BY <1>5, <2>1 DEF Advances, Others
    <2>2. CASE g = h
      <3>1. status[h] # "CLOSED" /\ io[h] \notin {"closed", "freed"}
        BY <1>5 DEF Advances, Conns, FreshIsNew, Fresh
      <3> QED BY <1>5, <2>2, <3>1 DEF Advances
    <2> QED BY <2>1, <2>2
  <1>6. ASSUME NEW h \in Gen, Writes(h) PROVE Failing(g)'
    <2>1. CloseIsPosted(g) => CloseIsPosted(g)'
      BY <1>6, WritesItem DEF WriteFailed, WriteTaken, ClosesStay
    <2> QED BY <1>6, <2>1 DEF Writes
  <1> QED BY <1>1, <1>2, <1>3, <1>4, <1>5, <1>6 DEF Kind

LEMMA ConnsStay == ASSUME SentInv, Kind PROVE Conns'
  <1> USE DEF SentInv, OwnerInv, HeartbeatInv, TypeInv, TypeOK, HioTypeOK
  <1> USE DEF Conns, FreshIsNew, LaterIsNew, PostedIsMade, ChannelIsMade
  <1>0. channel \in 0 .. MaxChan /\ (channel # 0 => channel \in Gen)
    BY ClientAssumption DEF ClientTypeOK, Gen
  <1>1. CASE Rests
    BY <1>1 DEF Rests, ClosesStay, Fresh
  <1>2. ASSUME NEW h \in Gen, Shuts(h) PROVE Conns'
    <2>1. \A g \in Gen : /\ Fresh(g)' => Fresh(g)
                         /\ io[g] # "none" => io'[g] # "none"
                         /\ CloseIsPosted(g)' => CloseIsPosted(g)
                         /\ g > channel => g # h
                         /\ Fresh(g)' => g # h
      BY <1>2, <1>0 DEF Shuts, Others, Fresh, Gen
    <2> QED BY <1>0, <1>2, <2>1 DEF Shuts, Others
  <1>3. ASSUME NEW h \in Gen, Drains(h) PROVE Conns'
    BY <1>3 DEF Drains, ClosesStay, Fresh
  <1>4. ASSUME NEW h \in Gen, Makes(h) PROVE Conns'
    <2>1. wq[h] = Nothing /\ \A g \in Gen : g > h => g > channel
      BY <1>0, <1>4 DEF Makes, Gen
    <2>2. FreshIsNew'
      BY <1>4, <2>1 DEF Makes, Others, Fresh
    <2>4. LaterIsNew'
      BY <1>0, <1>4, <2>1 DEF Makes, Others, Gen
    <2>3. PostedIsMade' /\ ChannelIsMade'
      BY <1>4 DEF Makes, Others
    <2> QED BY <2>2, <2>3, <2>4
  <1>5. ASSUME NEW h \in Gen, Advances(h) PROVE Conns'
    <2>1. FreshIsNew' /\ LaterIsNew'
      BY <1>0, <1>5 DEF Advances, Others, Fresh
    <2>2. PostedIsMade' /\ ChannelIsMade'
      BY <1>0, <1>5 DEF Advances, Others
    <2> QED BY <2>1, <2>2
  <1>6. ASSUME NEW h \in Gen, Writes(h) PROVE Conns'
    <2>1. io[h] = "up" \/ (UNCHANGED wq /\ ClosesStay)
      BY <1>6, WritesItem DEF WriteFailed, WriteTaken
    <2>2. \A g \in Gen \ {h} : wq'[g] = wq[g] /\ (CloseIsPosted(g)' <=> CloseIsPosted(g))
      BY <1>6, WritesItem DEF WriteFailed, WriteTaken, ClosesStay
    <2>3. UNCHANGED <<io, status, closing, channel>>
      BY <1>6 DEF Writes
    <2>4. h > channel => io[h] # "up"
      BY DEF HiosOwned, LaterIsNone
    <2>5. FreshIsNew' /\ LaterIsNew'
      BY <2>1, <2>2, <2>3, <2>4 DEF Fresh
    <2>6. PostedIsMade' /\ ChannelIsMade'
      BY <2>1, <2>2, <2>3 DEF ClosesStay
    <2> QED BY <2>5, <2>6
  <1> QED BY <1>1, <1>2, <1>3, <1>4, <1>5, <1>6 DEF Kind

(* What a step does to the sequences that were sent.                        *)

SameBut(H) == \A g \in Gen \ H : Sent(g)' = Sent(g)

Unsent == SameBut({}) /\ req' \in {req, req + 1} /\ (AllSound /\ AllSound' => req' = req)

Cut(h) == SameBut({h}) /\ Sent(h)' = out[h] /\ req' = req /\ Failing(h)'

More(h, x) == /\ SameBut({h}) /\ Sent(h)' = Sent(h) \o <<x>>
              /\ (x = UPGRADE /\ req' = req) \/ (x = req /\ req' = req + 1)

SentTypes == \A g \in Gen : /\ out[g] \in Seq(Ids \cup {UPGRADE})
                            /\ wq[g].data \in Seq(Ids \cup {UPGRADE})
                            /\ Sent(g) \in Seq(Ids \cup {UPGRADE})

LEMMA TypesOfSent == ASSUME TypeInv PROVE SentTypes
  <1>1. \A g \in Gen : /\ out[g] \in Seq(Ids \cup {UPGRADE})
                       /\ wq[g].data \in Seq(Ids \cup {UPGRADE})
    BY DEF TypeInv, TypeOK, HioTypeOK, SentTypeOK, Items
  <1> QED BY <1>1 DEF SentTypes, Sent

LEMMA SentEffect ==
    ASSUME SentInv, Kind
    PROVE  \/ Unsent
           \/ \E h \in Gen : Cut(h)
           \/ \E h \in Gen : \E x \in Ids \cup {UPGRADE} : More(h, x)
  <1> USE DEF SentInv, OwnerInv, HeartbeatInv, TypeInv, TypeOK
  <1>1. SentTypes /\ req \in Int
    BY TypesOfSent DEF MainTypeOK
  <1>2. CASE Rests
    <2>1. SameBut({})
      BY <1>2 DEF Rests, SameBut, Sent
    <2>2. CASE req' = req
      BY <1>1, <2>1, <2>2 DEF Unsent
    <2>3. CASE req' # req
      <3>1. pc = "send" /\ ~isOpened(channel) /\ req' = req + 1
        BY <1>2, <2>3
           DEF Rests, MainStays, MainSeesConnected, MainSend, SubscribeReturns
      <3>2. ~AllSound
        BY <3>1 DEF Sending, isOpened, openIo
      <3> QED BY <2>1, <3>1, <3>2 DEF Unsent
    <2> QED BY <2>2, <2>3
  <1>3. ASSUME NEW h \in Gen, Shuts(h) PROVE Unsent \/ Cut(h)
    <2>1. req' = req /\ SameBut({h}) /\ Failing(h)'
      BY <1>3 DEF Shuts, MainStays, Others, SameBut, Sent, Failing
    <2>2. CASE Sent(h)' = Sent(h)
      BY <1>1, <2>1, <2>2 DEF SameBut, Unsent
    <2>3. CASE Sent(h)' = out[h]
      BY <2>1, <2>3 DEF Cut
    <2>4. Sent(h)' = Sent(h) \/ Sent(h)' = out[h]
      <3>1. CASE out'[h] = out[h] /\ wq'[h] = wq[h]
        BY <3>1 DEF Sent
      <3>2. CASE out'[h] = out[h] /\ wq'[h] = Nothing
        BY <1>1, <3>2, ConcatEmptySeq DEF Sent, Nothing, SentTypes
      <3>3. CASE out'[h] = out[h] \o wq[h].data /\ wq'[h] = Nothing
        <4>1. Sent(h)' = Sent(h) \o << >>
          <5>1. wq'[h].data = << >>
            BY <3>3 DEF Nothing
          <5> QED BY <3>3, <5>1 DEF Sent
        <4> QED BY <1>1, <4>1, ConcatEmptySeq DEF SentTypes
      <3> QED BY <1>3, <3>1, <3>2, <3>3 DEF Shuts
    <2> QED BY <2>2, <2>3, <2>4
  <1>4. ASSUME NEW h \in Gen, Drains(h) PROVE Unsent
    <2>1. req' = req /\ SameBut({h}) /\ out'[h] = out[h] \o wq[h].data /\ wq'[h] = Nothing
      BY <1>4 DEF Drains, MainStays, SameBut, Sent, HioTypeOK, SentTypeOK
    <2>2. Sent(h)' = Sent(h)
      <3>1. Sent(h)' = Sent(h) \o << >>
        <4>1. wq'[h].data = << >>
          BY <2>1 DEF Nothing
        <4> QED BY <2>1, <4>1 DEF Sent
      <3> QED BY <1>1, <3>1, ConcatEmptySeq DEF SentTypes
    <2> QED BY <1>1, <2>1, <2>2 DEF SameBut, Unsent
  <1>5. ASSUME NEW h \in Gen, Makes(h) \/ Advances(h) PROVE Unsent
    <2>1. req' = req /\ SameBut({})
      BY <1>5 DEF Makes, Advances, MainStays, Others, SameBut, Sent
    <2> QED BY <1>1, <2>1 DEF Unsent
  <1>6. ASSUME NEW h \in Gen, Writes(h)
        PROVE  Unsent \/ \E x \in Ids \cup {UPGRADE} : More(h, x)
    <2>1. PICK item \in Items :
              /\ \/ io[h] # "up" /\ UNCHANGED <<out, wq>> /\ ClosesStay
                 \/ WriteFailed(h)
                 \/ WriteTaken(h, item)
              /\ \/ MainStays /\ item \in {Control, Data(UPGRADE)}
                 \/ h = held /\ pc = "write" /\ item = Data(req) /\ SubscribeReturns
      BY <1>6, WritesItem
    <2>2. CASE UNCHANGED <<out, wq>>
      <3>1. SameBut({})
        BY <2>2 DEF SameBut, Sent
      <3>2. req' \in {req, req + 1}
        BY <2>1 DEF MainStays, SubscribeReturns
      <3>3. ASSUME AllSound, AllSound' PROVE req' = req
        <4>1. ~WriteFailed(h)
          BY <3>3 DEF AllSound, WriteFailed, Failing
        <4>2. io[h] # "up" \/ WriteTaken(h, item)
          BY <2>1, <4>1
        <4>3. CASE io[h] # "up"
          BY <2>1, <3>3, <4>3 DEF Sending, MainStays
        <4>4. CASE WriteTaken(h, item) /\ item = Data(req)
          <5>1. Sent(h) = Sent(h) \o <<req>> /\ Sent(h) \in Seq(Ids \cup {UPGRADE})
            BY <1>1, <2>2, <4>4 DEF WriteTaken, Sent, Data, SentTypes
          <5>2. <<req>> \in Seq(Int) /\ Len(<<req>>) = 1
            BY <1>1
          <5>3. Ids \cup {UPGRADE} \subseteq Int
            BY ClientAssumption DEF Ids, UPGRADE
          <5>4. Len(Sent(h) \o <<req>>) = Len(Sent(h)) + 1 /\ Len(Sent(h)) \in Nat
            BY <5>1, <5>2, <5>3
          <5> QED BY <5>1, <5>4
        <4> QED BY <2>1, <4>2, <4>3, <4>4 DEF MainStays
      <3> QED BY <3>1, <3>2, <3>3 DEF Unsent
    <2>3. CASE WriteTaken(h, item)
      <3>1. SameBut({h})
        BY <2>3 DEF WriteTaken, SameBut, Sent
      <3>2. CASE MainStays /\ item = Control
        <4>1. Sent(h)' = Sent(h)
          BY <1>1, <2>3, <3>2, ConcatEmptySeq DEF WriteTaken, Control, SentTypes
        <4> QED BY <1>1, <3>1, <3>2, <4>1 DEF SameBut, Unsent, MainStays
      <3>3. CASE MainStays /\ item = Data(UPGRADE)
        BY <2>3, <3>1, <3>3 DEF WriteTaken, Data, More, MainStays
      <3>4. CASE pc = "write" /\ item = Data(req) /\ SubscribeReturns
        <4>1. req \in Ids
          BY <3>4, ClientAssumption DEF ReqBound, MainTypeOK, Ids
        <4>2. More(h, req)
          BY <2>3, <3>1, <3>4 DEF WriteTaken, Data, More, SubscribeReturns
        <4> QED BY <4>1, <4>2
      <3> QED BY <2>1, <3>2, <3>3, <3>4
    <2> QED BY <2>1, <2>2, <2>3 DEF WriteFailed
  <1> QED BY <1>2, <1>3, <1>4, <1>5, <1>6 DEF Kind

(* The order of what was sent, and that nothing is lost.                    *)

\* Every entry after the step was there before, or is the one that came in.
LEMMA EntriesGrow ==
    ASSUME SentInv, Kind
    PROVE  /\ req' \in {req, req + 1}
           /\ \E h \in Gen, x \in Ids \cup {UPGRADE} :
                 /\ x = UPGRADE \/ (x = req /\ req' = req + 1)
                 /\ \A g \in Gen : \A i \in DOMAIN Sent(g)' :
                       \/ i \in DOMAIN Sent(g) /\ Sent(g)'[i] = Sent(g)[i]
                       \/ g = h /\ i = Len(Sent(h)) + 1 /\ Sent(g)'[i] = x
  <1> DEFINE D == Ids \cup {UPGRADE}
             Old(g, i) == i \in DOMAIN Sent(g) /\ Sent(g)'[i] = Sent(g)[i]
  <1>1. SentTypes /\ 1 \in Gen /\ UPGRADE \in D /\ req \in Int
    BY TypesOfSent, ClientAssumption
       DEF SentInv, OwnerInv, HeartbeatInv, TypeInv, TypeOK, MainTypeOK, Gen
  <1>2. CASE Unsent
    BY <1>1, <1>2 DEF Unsent, SameBut
  <1>3. ASSUME NEW h \in Gen, Cut(h) PROVE \A g \in Gen : \A i \in DOMAIN Sent(g)' : Old(g, i)
    <2>1. out[h] \in Seq(D) /\ wq[h].data \in Seq(D)
      BY <1>1 DEF SentTypes
    <2>2. \A i \in DOMAIN out[h] : i \in DOMAIN Sent(h) /\ Sent(h)[i] = out[h][i]
      <3> DEFINE s == out[h]
                 t == wq[h].data
      <3>1. \A i \in DOMAIN s : i \in DOMAIN (s \o t) /\ (s \o t)[i] = s[i]
        <4>1. s \in Seq(D) /\ t \in Seq(D)
          BY <2>1
        <4> HIDE DEF s, t, D
        <4> QED BY <4>1
      <3> QED BY <3>1 DEF Sent
    <2> QED BY <1>3, <2>2 DEF Cut, SameBut
  <1>4. ASSUME NEW h \in Gen, NEW x \in D, More(h, x)
        PROVE  \A g \in Gen : \A i \in DOMAIN Sent(g)' :
                  Old(g, i) \/ (g = h /\ i = Len(Sent(h)) + 1 /\ Sent(g)'[i] = x)
    <2>1. Sent(h) \in Seq(D) /\ <<x>> \in Seq(D) /\ Len(<<x>>) = 1 /\ <<x>>[1] = x
      BY <1>1 DEF SentTypes
    <2> DEFINE s == Sent(h)
               t == s \o <<x>>
    <2>2. \A i \in DOMAIN t : \/ i \in DOMAIN s /\ t[i] = s[i]
                              \/ i = Len(s) + 1 /\ t[i] = x
      <3> HIDE DEF s, D
      <3> QED BY <2>1 DEF s
    <2> QED BY <1>4, <2>2 DEF More, SameBut
  <1>5. CASE \E h \in Gen : Cut(h)
    BY <1>1, <1>3, <1>5 DEF Cut
  <1>6. CASE \E h \in Gen : \E x \in D : More(h, x)
    <2>1. PICK h \in Gen, x \in D : More(h, x)
      BY <1>6
    <2>2. req' \in {req, req + 1} /\ (x = UPGRADE \/ (x = req /\ req' = req + 1))
      BY <2>1 DEF More
    <2> QED BY <1>4, <2>1, <2>2
  <1> QED BY <1>2, <1>5, <1>6, SentEffect

LEMMA OrderStays == ASSUME SentInv, Kind PROVE IdsBelow' /\ RequestOrder'
  <1>1. PICK h \in Gen, x \in Ids \cup {UPGRADE} :
            /\ x = UPGRADE \/ (x = req /\ req' = req + 1)
            /\ \A g \in Gen : \A i \in DOMAIN Sent(g)' :
                  \/ i \in DOMAIN Sent(g) /\ Sent(g)'[i] = Sent(g)[i]
                  \/ g = h /\ i = Len(Sent(h)) + 1 /\ Sent(g)'[i] = x
    BY EntriesGrow
  <1>2. /\ req \in Nat /\ req' \in {req, req + 1} /\ UPGRADE = -1
        /\ \A g \in Gen : /\ DOMAIN Sent(g) = 1 .. Len(Sent(g)) /\ Len(Sent(g)) \in Nat
                          /\ \A i \in DOMAIN Sent(g) : Sent(g)[i] \in Int
    <2>1. SentTypes /\ req \in Nat /\ Ids \cup {UPGRADE} \subseteq Int
      BY TypesOfSent, ClientAssumption
         DEF SentInv, OwnerInv, HeartbeatInv, TypeInv, TypeOK, MainTypeOK, Ids, UPGRADE
    <2> QED BY <2>1, EntriesGrow DEF SentTypes, UPGRADE
  <1>3. IdsBelow'
    BY <1>1, <1>2 DEF SentInv, IdsBelow
  <1>4. ASSUME NEW g \in Gen, NEW k \in Gen, NEW i \in DOMAIN Sent(g)', NEW j \in DOMAIN Sent(k)',
               Sent(g)'[i] # UPGRADE, Sent(k)'[j] # UPGRADE
        PROVE  /\ g = k /\ i < j => Sent(g)'[i] < Sent(k)'[j]
               /\ Sent(g)'[i] = Sent(k)'[j] => g = k /\ i = j
    <2>1. CASE /\ i \in DOMAIN Sent(g) /\ Sent(g)'[i] = Sent(g)[i]
               /\ j \in DOMAIN Sent(k) /\ Sent(k)'[j] = Sent(k)[j]
      BY <1>4, <2>1 DEF SentInv, RequestOrder
    <2>2. CASE /\ i \in DOMAIN Sent(g) /\ Sent(g)'[i] = Sent(g)[i]
               /\ k = h /\ j = Len(Sent(h)) + 1 /\ Sent(k)'[j] = x
      <3>1. Sent(g)[i] < req /\ x = req
        BY <1>1, <1>4, <2>2 DEF SentInv, IdsBelow
      <3> QED BY <1>2, <2>2, <3>1
    <2>3. CASE /\ g = h /\ i = Len(Sent(h)) + 1 /\ Sent(g)'[i] = x
               /\ j \in DOMAIN Sent(k) /\ Sent(k)'[j] = Sent(k)[j]
      <3>1. Sent(k)[j] < req /\ x = req
        BY <1>1, <1>4, <2>3 DEF SentInv, IdsBelow
      <3>2. g = k => j < i
        BY <1>2, <2>3
      <3> QED BY <1>2, <2>3, <3>1, <3>2
    <2>4. CASE g = h /\ k = h /\ i = Len(Sent(h)) + 1 /\ j = Len(Sent(h)) + 1
      BY <1>2, <2>4
    <2> QED BY <1>1, <2>1, <2>2, <2>3, <2>4
  <1> QED BY <1>3, <1>4 DEF RequestOrder

\* While all is sound nothing that was sent goes away, and every id is sent.
LEMMA LostStays == ASSUME SentInv, Kind PROVE LostOnlyWithConnection' /\ Sending'
  <1>1. AllSound' => AllSound
    BY FailingStays DEF AllSound
  <1>2. SentTypes /\ req \in Nat
    BY TypesOfSent DEF SentInv, OwnerInv, HeartbeatInv, TypeInv, TypeOK, MainTypeOK
  <1>3. ASSUME AllSound', NEW id \in 0 .. (req' - 1)
        PROVE  \E g \in Gen : \E i \in DOMAIN Sent(g)' : Sent(g)'[i] = id
    <2>1. \A k \in 0 .. (req - 1) : \E g \in Gen : \E i \in DOMAIN Sent(g) : Sent(g)[i] = k
      BY <1>1, <1>3 DEF SentInv, LostOnlyWithConnection, AllSound
    <2>2. CASE Unsent
      BY <1>1, <1>3, <2>1, <2>2 DEF Unsent, SameBut
    <2>3. ASSUME NEW h \in Gen, Cut(h) PROVE FALSE
      BY <1>3, <2>3 DEF Cut, AllSound
    <2>4. ASSUME NEW h \in Gen, NEW x \in Ids \cup {UPGRADE}, More(h, x)
          PROVE  \E g \in Gen : \E i \in DOMAIN Sent(g)' : Sent(g)'[i] = id
      <3> DEFINE s == Sent(h)
                 t == s \o <<x>>
      <3>1. /\ Len(s) \in Nat /\ Len(s) + 1 \in DOMAIN t /\ t[Len(s) + 1] = x
            /\ \A i \in DOMAIN s : i \in DOMAIN t /\ t[i] = s[i]
        <4>1. s \in Seq(Ids \cup {UPGRADE}) /\ Len(<<x>>) = 1 /\ <<x>>[1] = x
              /\ <<x>> \in Seq(Ids \cup {UPGRADE})
          BY <1>2 DEF SentTypes
        <4> HIDE DEF s
        <4> QED BY <4>1
      <3>2. Sent(h)' = t
        BY <2>4 DEF More
      <3>3. CASE id = req
        <4>1. x = req
          BY <1>2, <1>3, <2>4, <3>3 DEF More
        <4> QED BY <3>1, <3>2, <3>3, <4>1
      <3>4. CASE id # req
        <4>1. id \in 0 .. (req - 1)
          BY <1>2, <1>3, <2>4, <3>4 DEF More
        <4>2. PICK g \in Gen : \E i \in DOMAIN Sent(g) : Sent(g)[i] = id
          BY <2>1, <4>1
        <4>3. CASE g = h
          BY <3>1, <3>2, <4>2, <4>3
        <4>4. CASE g # h
          BY <2>4, <4>2, <4>4 DEF More, SameBut
        <4> QED BY <4>3, <4>4
      <3> QED BY <3>3, <3>4
    <2> QED BY <2>2, <2>3, <2>4, SentEffect
  <1>4. LostOnlyWithConnection'
    BY <1>3 DEF LostOnlyWithConnection, AllSound
  <1>5. ASSUME AllSound', pc' \in {"send", "write"}
        PROVE  /\ channel' # 0 /\ io'[channel'] = "up" /\ status'[channel'] = "CONNECTED"
               /\ pc' = "write" => held' = channel'
    <2> USE DEF SentInv, OwnerInv, HeartbeatInv, TypeInv, TypeOK
    <2>1. channel \in 0 .. MaxChan /\ (channel # 0 => channel \in Gen)
      BY ClientAssumption DEF ClientTypeOK, Gen
    <2>2. CASE Rests /\ MainSeesConnected
      <3>1. channel # 0 /\ status[channel] = "CONNECTED" /\ io[channel] \in openIo
            /\ pc' = "send" /\ UNCHANGED <<io, status, channel>>
        BY <2>2 DEF MainSeesConnected, isConnected, isOpened, Rests
      <3>2. io[channel] = "up"
        BY <2>1, <3>1 DEF Conns, FreshIsNew, Fresh, openIo
      <3> QED BY <3>1, <3>2
    <2>3. CASE Rests /\ MainSend
      BY <1>1, <1>5, <2>3 DEF MainSend, SubscribeReturns, Rests, Sending
    <2>4. CASE Rests /\ MainStays
      BY <1>1, <1>5, <2>4 DEF MainStays, Rests, Sending
    <2>5. ASSUME NEW h \in Gen, Shuts(h) PROVE FALSE
      BY <1>5, <2>5 DEF Shuts, AllSound, Failing
    <2>6. ASSUME NEW h \in Gen, Drains(h)
          PROVE  UNCHANGED <<io, status, channel>> /\ MainStays
      BY <2>6 DEF Drains
    <2>7. ASSUME NEW h \in Gen, Makes(h) PROVE FALSE
      BY <1>1, <1>5, <2>1, <2>7 DEF Makes, AllSound, MainStays
    <2>8. ASSUME NEW h \in Gen, Advances(h) PROVE FALSE
      BY <1>1, <1>5, <2>8 DEF Advances, MainStays, Sending, Fresh
    <2>9. ASSUME NEW h \in Gen, Writes(h)
          PROVE  UNCHANGED <<io, status, channel>> /\ MainStays
      BY <1>5, <2>9 DEF Writes, SubscribeReturns
    <2> QED BY <1>1, <1>5, <2>2, <2>3, <2>4, <2>5, <2>6, <2>7, <2>8, <2>9
            DEF Kind, Rests, Sending, MainStays
  <1> QED BY <1>4, <1>5 DEF Sending

LEMMA SentInvHolds == Spec => []SentInv
  <1>1. Init => SentInv
    <2> SUFFICES ASSUME Init PROVE SentInv
      OBVIOUS
    <2>1. OwnerInv
      BY OwnerInit
    <2>2. \A g \in Gen : Sent(g) = << >>
      BY DEF Init, Sent, Nothing
    <2>3. IdsBelow /\ RequestOrder /\ LostOnlyWithConnection
      BY <2>2 DEF Init, IdsBelow, RequestOrder, LostOnlyWithConnection
    <2>4. Conns /\ Sending
      BY DEF Init, Conns, FreshIsNew, LaterIsNew, PostedIsMade, ChannelIsMade, Fresh, CloseIsPosted, Sending
    <2> QED BY <2>1, <2>3, <2>4 DEF SentInv
  <1>2. SentInv /\ OwnerInv' /\ [Next]_vars => SentInv'
    <2> SUFFICES ASSUME SentInv, OwnerInv', [Next]_vars PROVE SentInv'
      OBVIOUS
    <2> QED BY StepKind, ConnsStay, OrderStays, LostStays DEF SentInv
  <1> QED BY <1>1, <1>2, OwnerInvHolds, PTL DEF Spec

\* m_request_id gives every subscription its own id: whatever connections come and
\* go, the ids written to one are in the order of the calls and none is used twice.
THEOREM RequestOrderHolds == Spec => []RequestOrder
  <1>1. SentInv => RequestOrder
    BY DEF SentInv
  <1> QED BY <1>1, SentInvHolds, PTL

\* subscribe ignores send's result, and still loses a subscription only with a
\* connection that has ended or is bound to.
THEOREM LostOnlyWithConnectionHolds == Spec => []LostOnlyWithConnection
  <1>1. SentInv => LostOnlyWithConnection
    BY DEF SentInv
  <1> QED BY <1>1, SentInvHolds, PTL
=============================================================================
