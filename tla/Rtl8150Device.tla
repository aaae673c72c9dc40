---------------------------- MODULE Rtl8150Device ----------------------------
(***************************************************************************)
(* The RTL8150 adapter as a whole: its bulk endpoints and its registers.   *)
(* They share the configuration, without which neither answers, and the    *)
(* bus reset, which clears both in one handler.  The driver is one too: it *)
(* moves frames once it has opened the interface, also while one of its    *)
(* PHY accesses is under way.                                              *)
(***************************************************************************)
EXTENDS Rtl8150, Rtl8150Regs

deviceVars == <<vars, regsVars>>

DeviceInit == Init /\ RegsInit

IsUp == doing \notin {"down", "resetting", "open"}

Bulk == \/ \E n \in RxSizes : Arrive(n)
        \/ IsUp /\ In
        \/ \E n \in TxSizes : IsUp /\ Submit(n)
        \/ Out
        \/ KillRx
        \/ KillTx
        \/ Configure

\* rtl8150_handle_reset
DeviceReset == HandleReset /\ BusReset

DeviceNext == \/ Bulk /\ UNCHANGED regsVars
              \/ config /\ Driver /\ UNCHANGED vars
              \/ DeviceReset

\* The driver goes on polling.
DriverPolls == config /\ Polls /\ UNCHANGED vars

DeviceSpec == DeviceInit /\ [][DeviceNext]_deviceVars /\ WF_deviceVars(DriverPolls)
==============================================================================
