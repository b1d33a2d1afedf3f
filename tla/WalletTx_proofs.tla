--------------------------- MODULE WalletTx_proofs ---------------------------
(***************************************************************************)
(* Proofs about WalletTx: the inductive invariant IInv and what follows    *)
(* from it, for any accounts, amounts and bounds and any number of clicks  *)
(* at work at once.                                                        *)
(***************************************************************************)
EXTENDS WalletTx, TLAPS

-----------------------------------------------------------------------------
(* The type invariant in four parts. *)

PageType ==
  /\ walletOverride \in Guest \cup {NULL}
  /\ snapshot \in Snapshot /\ loads \subseteq Load
  /\ busy \in BOOLEAN
  /\ connects \in Nat /\ faults \in Nat
ClickType ==
  /\ click \in [Click -> Task]
  /\ \A c \in Click : click[c].pc # "idle" =>
       click[c].op \in Operation /\ click[c].account \in Guest
PoolType == onHotelChain \in BOOLEAN /\ pool \subseteq Tx
TokenType ==
  /\ held \in [Guest -> Nat] /\ allowance \in [Guest -> Nat]
  /\ stay \in [Guest -> [amount : Nat, unlocked : BOOLEAN]]
  /\ \A g \in Guest : stay[g].unlocked => stay[g].amount > 0
  /\ claimed \in [Guest -> Nat]

LEMMA TypeParts == TypeOK <=> PageType /\ ClickType /\ PoolType /\ TokenType
PROOF BY DEF TypeOK, PageType, ClickType, PoolType, TokenType

Pc == {"prepare", "allowance", "stay", "chain", "switch", "switched", "send",
       "receipt", "refresh"}

(* What the changes of a click keep of its type. *)

LEMMA GotoType ==
  ASSUME ClickType, NEW c \in Click, NEW pc \in Pc, click[c].pc # "idle",
         click' = [click EXCEPT ![c].pc = pc]
  PROVE  ClickType'
PROOF
<1>1. click' \in [Click -> Task]
  BY DEF ClickType, Task, Pc
<1>2. ASSUME NEW d \in Click, click'[d].pc # "idle"
      PROVE  click'[d].op \in Operation /\ click'[d].account \in Guest
  BY <1>2 DEF ClickType, Task
<1> QED
  BY <1>1, <1>2 DEF ClickType

LEMMA EndType ==
  ASSUME ClickType, NEW c \in Click, click' = [click EXCEPT ![c] = NoClick]
  PROVE  ClickType'
PROOF
<1>1. NoClick \in Task /\ NoClick.pc = "idle"
  BY DEF NoClick, Task
<1>2. click' \in [Click -> Task]
  BY <1>1 DEF ClickType
<1>3. ASSUME NEW d \in Click, click'[d].pc # "idle"
      PROVE  click'[d].op \in Operation /\ click'[d].account \in Guest
  BY <1>1, <1>3 DEF ClickType
<1> QED
  BY <1>2, <1>3 DEF ClickType

LEMMA StartType ==
  ASSUME ClickType, NEW c \in Click, NEW op \in Operation, NEW g \in Guest,
         NEW n \in Nat, NEW pc \in Pc,
         click' = [click EXCEPT ![c] = [NoClick EXCEPT !.pc = pc, !.op = op,
                                          !.account = g, !.value = n]]
  PROVE  ClickType'
PROOF
<1> DEFINE task == [NoClick EXCEPT !.pc = pc, !.op = op, !.account = g, !.value = n]
<1>1. task \in Task /\ task.op = op /\ task.account = g
  BY DEF NoClick, Task, Pc
<1> HIDE DEF task
<1>2. click' = [click EXCEPT ![c] = task]
  BY DEF task
<1>3. click' \in [Click -> Task]
  BY <1>1, <1>2 DEF ClickType
<1>4. ASSUME NEW d \in Click, click'[d].pc # "idle"
      PROVE  click'[d].op \in Operation /\ click'[d].account \in Guest
  BY <1>1, <1>2, <1>4 DEF ClickType
<1> QED
  BY <1>3, <1>4 DEF ClickType

LEMMA ReceiptType ==
  ASSUME ClickType, NEW c \in Click, NEW r \in {"pending", "success", "failed"},
         NEW d \in BOOLEAN,
         click' = [click EXCEPT ![c] = [@ EXCEPT !.receipt = r, !.done = d]]
  PROVE  ClickType'
PROOF
<1> DEFINE task == [click[c] EXCEPT !.receipt = r, !.done = d]
<1>0. task \in Task
  BY DEF ClickType, Task
<1>1. click' \in [Click -> Task]
  BY <1>0 DEF ClickType
<1>2. ASSUME NEW e \in Click, click'[e].pc # "idle"
      PROVE  click'[e].op \in Operation /\ click'[e].account \in Guest
  BY <1>2 DEF ClickType, Task
<1> QED
  BY <1>1, <1>2 DEF ClickType

(* Answers and transactions have their types. *)

LEMMA AnswersType ==
  ASSUME TypeOK, NEW g \in Guest \cup {NULL}, NEW answer \in Answers(g)
  PROVE  answer \in Snapshot /\ answer.of = g
PROOF
<1>1. \A h \in Guest : StayPhase(h) \in {"none", "active", "expired"}
  BY DEF StayPhase
<1> QED
  BY <1>1 DEF TypeOK, Answers, Snapshot, FailClosed

LEMMA AskedType ==
  ASSUME TypeOK, NEW by \in Click \cup {NULL}, NEW answer \in Answers(walletOverride)
  PROVE  Asked(by, answer) \in Load
PROOF
<1>1. answer \in Snapshot
  BY AnswersType DEF TypeOK
<1> QED
  BY <1>1 DEF Asked, Load

LEMMA SentType ==
  ASSUME TypeOK, NEW c \in Click, NEW by \in Click \cup {NULL}, click[c].pc # "idle"
  PROVE  Sent(c, by) \in Tx
PROOF
<1>1. click[c].op \in Operation /\ click[c].account \in Guest /\ click[c].value \in Nat
  BY DEF TypeOK, Task
<1> QED
  BY <1>1 DEF Sent, Account, Tx, TypeOK

LEMMA WalletType ==
  ASSUME TypeOK, Wallet # NULL
  PROVE  Wallet \in Guest
PROOF BY DEF TypeOK, Wallet, ConnectedWallet, Snapshot

-----------------------------------------------------------------------------
(* Every step keeps the type. *)

LEMMA TypeStep ==
  ASSUME TypeOK, [Next]_vars
  PROVE  TypeOK'
PROOF
<1>0. PageType /\ ClickType /\ PoolType /\ TokenType
  BY TypeParts
<1>1. ASSUME NEW c \in Click, OnClaim(c)
      PROVE  TypeOK'
  <2>1. click' = [click EXCEPT ![c] = [NoClick EXCEPT !.pc = "prepare", !.op = "claim",
                                         !.account = Wallet, !.value = 0]]
    BY <1>1 DEF OnClaim, Starts
  <2>2. Wallet \in Guest
    BY <1>1, WalletType DEF OnClaim, Starts
  <2>3. "claim" \in Operation /\ 0 \in Nat /\ "prepare" \in Pc
    BY WalletTxAssumption DEF Operation, Pc
  <2>4. ClickType'
    BY <1>0, <2>1, <2>2, <2>3, StartType
  <2>5. PageType'
    BY <1>1, <1>0 DEF OnClaim, page, PageType, Starts
  <2>9. PoolType'
    BY <1>1, <1>0 DEF OnClaim, PoolType, Starts
  <2>10. TokenType'
    BY <1>1, <1>0 DEF OnClaim, tokens, TokenType, Starts
  <2> QED
    BY <2>4, <2>5, <2>9, <2>10 DEF TypeOK, PageType, ClickType, PoolType, TokenType
<1>2. ASSUME NEW c \in Click, OnCheckOut(c)
      PROVE  TypeOK'
  <2>1. click' = [click EXCEPT ![c] = [NoClick EXCEPT !.pc = "stay", !.op = "checkOut",
                                         !.account = Wallet, !.value = 0]]
    BY <1>2 DEF OnCheckOut, Starts
  <2>2. Wallet \in Guest
    BY <1>2, WalletType DEF OnCheckOut, Starts
  <2>3. "checkOut" \in Operation /\ 0 \in Nat /\ "stay" \in Pc
    BY WalletTxAssumption DEF Operation, Pc
  <2>4. ClickType'
    BY <1>0, <2>1, <2>2, <2>3, StartType
  <2>5. PageType'
    BY <1>2, <1>0 DEF OnCheckOut, page, PageType, Starts
  <2>9. PoolType'
    BY <1>2, <1>0 DEF OnCheckOut, PoolType, Starts
  <2>10. TokenType'
    BY <1>2, <1>0 DEF OnCheckOut, tokens, TokenType, Starts
  <2> QED
    BY <2>4, <2>5, <2>9, <2>10 DEF TypeOK, PageType, ClickType, PoolType, TokenType
<1>3. ASSUME NEW c \in Click, NEW n \in Amount, OnApprove(c, n)
      PROVE  TypeOK'
  <2>1. click' = [click EXCEPT ![c] = [NoClick EXCEPT !.pc = "chain", !.op = "approve",
                                         !.account = Wallet, !.value = n]]
    BY <1>3 DEF OnApprove, ApproveExactHotel, Starts
  <2>2. Wallet \in Guest
    BY <1>3, WalletType DEF OnApprove, ApproveExactHotel, Starts
  <2>3. "approve" \in Operation /\ n \in Nat /\ "chain" \in Pc
    BY WalletTxAssumption DEF Operation, Pc
  <2>4. ClickType'
    BY <1>0, <2>1, <2>2, <2>3, StartType
  <2>5. PageType'
    BY <1>3, <1>0 DEF OnApprove, page, PageType, ApproveExactHotel, Starts
  <2>9. PoolType'
    BY <1>3, <1>0 DEF OnApprove, PoolType, ApproveExactHotel, Starts
  <2>10. TokenType'
    BY <1>3, <1>0 DEF OnApprove, tokens, TokenType, ApproveExactHotel, Starts
  <2> QED
    BY <2>4, <2>5, <2>9, <2>10 DEF TypeOK, PageType, ClickType, PoolType, TokenType
<1>4. ASSUME NEW c \in Click, NEW n \in Amount, OnCheckIn(c, n)
      PROVE  TypeOK'
  <2>1. click' = [click EXCEPT ![c] = [NoClick EXCEPT !.pc = "prepare", !.op = "checkIn",
                                         !.account = Wallet, !.value = n]]
    BY <1>4 DEF OnCheckIn, Starts
  <2>2. Wallet \in Guest
    BY <1>4, WalletType DEF OnCheckIn, Starts
  <2>3. "checkIn" \in Operation /\ n \in Nat /\ "prepare" \in Pc
    BY WalletTxAssumption DEF Operation, Pc
  <2>4. ClickType'
    BY <1>0, <2>1, <2>2, <2>3, StartType
  <2>5. PageType'
    BY <1>4, <1>0 DEF OnCheckIn, page, PageType, Starts
  <2>9. PoolType'
    BY <1>4, <1>0 DEF OnCheckIn, PoolType, Starts
  <2>10. TokenType'
    BY <1>4, <1>0 DEF OnCheckIn, tokens, TokenType, Starts
  <2> QED
    BY <2>4, <2>5, <2>9, <2>10 DEF TypeOK, PageType, ClickType, PoolType, TokenType
<1>5. ASSUME NEW c \in Click, Throw(c)
      PROVE  TypeOK'
  <2>1. click' = [click EXCEPT ![c] = NoClick]
    BY <1>5 DEF Throw, End
  <2>4. ClickType'
    BY <1>0, <2>1, EndType
  <2>5. PageType'
    <3>1. busy' \in BOOLEAN
      BY <1>5, <1>0 DEF Throw, PageType, End, BusyAfter
    <3>2. faults' \in Nat
      BY <1>5, <1>0 DEF Throw, PageType, Fault
    <3> QED
      BY <1>5, <1>0, <3>1, <3>2 DEF Throw, page, PageType
  <2>9. PoolType'
    BY <1>5, <1>0 DEF Throw, PoolType
  <2>10. TokenType'
    BY <1>5, <1>0 DEF Throw, tokens, TokenType
  <2> QED
    BY <2>4, <2>5, <2>9, <2>10 DEF TypeOK, PageType, ClickType, PoolType, TokenType
<1>6. ASSUME NEW c \in Click, PrepareRoomServiceClaim(c)
      PROVE  TypeOK'
  <2>1. click[c].pc # "idle" /\ Account(c) \in Guest
    BY <1>6, <1>0 DEF PrepareRoomServiceClaim, At, Account, ClickType
  <2>2. ASSUME click' = [click EXCEPT ![c] = NoClick]
        PROVE  ClickType'
    BY <1>0, <2>2, EndType
  <2>3. ASSUME click' = [click EXCEPT ![c] = [@ EXCEPT !.pc = "chain",
                                                      !.value = Earned[Account(c)]]]
        PROVE  ClickType'
    <3>1. Earned[Account(c)] \in Nat
      BY <2>1, WalletTxAssumption
    <3>2. click' \in [Click -> Task]
      BY <1>0, <2>3, <3>1 DEF ClickType, Task
    <3>3. ASSUME NEW d \in Click, click'[d].pc # "idle"
          PROVE  click'[d].op \in Operation /\ click'[d].account \in Guest
      BY <1>0, <2>1, <2>3, <3>3 DEF ClickType, Task
    <3> QED
      BY <3>2, <3>3 DEF ClickType
  <2>4. ClickType'
    BY <1>6, <2>2, <2>3 DEF PrepareRoomServiceClaim, End
  <2>5. PageType'
    BY <1>6, <1>0 DEF PrepareRoomServiceClaim, page, PageType, At, End, Account,
      BusyAfter
  <2>9. PoolType'
    BY <1>6, <1>0 DEF PrepareRoomServiceClaim, PoolType
  <2>10. TokenType'
    BY <1>6, <1>0 DEF PrepareRoomServiceClaim, tokens, TokenType
  <2> QED
    BY <2>4, <2>5, <2>9, <2>10 DEF TypeOK, PageType, ClickType, PoolType, TokenType
<1>7. ASSUME NEW c \in Click, PrepareCheckInAuthorization(c)
      PROVE  TypeOK'
  <2>1. click[c].pc # "idle"
    BY <1>7 DEF PrepareCheckInAuthorization, At
  <2>2. \/ click' = [click EXCEPT ![c].pc = "allowance"]
        \/ click' = [click EXCEPT ![c] = NoClick]
    BY <1>7 DEF PrepareCheckInAuthorization, At, GoesOn, Goto, End
  <2>3. "allowance" \in Pc
    BY DEF Pc
  <2>4. ClickType'
    BY <1>0, <2>1, <2>2, <2>3, GotoType, EndType
  <2>5. PageType'
    BY <1>7, <1>0 DEF PrepareCheckInAuthorization, page, PageType, At, GoesOn, Goto,
      End, BusyAfter
  <2>9. PoolType'
    BY <1>7, <1>0 DEF PrepareCheckInAuthorization, PoolType
  <2>10. TokenType'
    BY <1>7, <1>0 DEF PrepareCheckInAuthorization, tokens, TokenType
  <2> QED
    BY <2>4, <2>5, <2>9, <2>10 DEF TypeOK, PageType, ClickType, PoolType, TokenType
<1>8. ASSUME NEW c \in Click, ReadHotelAllowance(c)
      PROVE  TypeOK'
  <2>1. click[c].pc # "idle"
    BY <1>8 DEF ReadHotelAllowance, At
  <2>2. \/ click' = [click EXCEPT ![c].pc = "chain"]
        \/ click' = [click EXCEPT ![c] = NoClick]
    BY <1>8 DEF ReadHotelAllowance, At, GoesOn, Goto, End
  <2>3. "chain" \in Pc
    BY DEF Pc
  <2>4. ClickType'
    BY <1>0, <2>1, <2>2, <2>3, GotoType, EndType
  <2>5. PageType'
    BY <1>8, <1>0 DEF ReadHotelAllowance, page, PageType, At, GoesOn, Goto, End,
      BusyAfter
  <2>9. PoolType'
    BY <1>8, <1>0 DEF ReadHotelAllowance, PoolType
  <2>10. TokenType'
    BY <1>8, <1>0 DEF ReadHotelAllowance, tokens, TokenType
  <2> QED
    BY <2>4, <2>5, <2>9, <2>10 DEF TypeOK, PageType, ClickType, PoolType, TokenType
<1>9. ASSUME NEW c \in Click, ReadStayFromContract(c)
      PROVE  TypeOK'
  <2>1. click[c].pc # "idle"
    BY <1>9 DEF ReadStayFromContract, At
  <2>2. \/ click' = [click EXCEPT ![c].pc = "chain"]
        \/ click' = [click EXCEPT ![c] = NoClick]
    BY <1>9 DEF ReadStayFromContract, At, ExecuteCheckOut, Goto, End
  <2>3. "chain" \in Pc
    BY DEF Pc
  <2>4. ClickType'
    BY <1>0, <2>1, <2>2, <2>3, GotoType, EndType
  <2>5. PageType'
    BY <1>9, <1>0 DEF ReadStayFromContract, page, PageType, At, ExecuteCheckOut, Goto,
      End, BusyAfter
  <2>9. PoolType'
    BY <1>9, <1>0 DEF ReadStayFromContract, PoolType
  <2>10. TokenType'
    BY <1>9, <1>0 DEF ReadStayFromContract, tokens, TokenType
  <2> QED
    BY <2>4, <2>5, <2>9, <2>10 DEF TypeOK, PageType, ClickType, PoolType, TokenType
<1>10. ASSUME NEW c \in Click, EnsureRobinhoodChain(c)
      PROVE  TypeOK'
  <2>1. click[c].pc # "idle"
    BY <1>10 DEF EnsureRobinhoodChain, At
  <2>2. PICK pc \in {"send", "switch"} : click' = [click EXCEPT ![c].pc = pc]
    BY <1>10 DEF EnsureRobinhoodChain, Goto
  <2>3. pc \in Pc
    BY DEF Pc
  <2>4. ClickType'
    BY <1>0, <2>1, <2>2, <2>3, GotoType
  <2>5. PageType'
    BY <1>10, <1>0 DEF EnsureRobinhoodChain, page, PageType, At, Goto
  <2>9. PoolType'
    BY <1>10, <1>0 DEF EnsureRobinhoodChain, PoolType
  <2>10. TokenType'
    BY <1>10, <1>0 DEF EnsureRobinhoodChain, tokens, TokenType
  <2> QED
    BY <2>4, <2>5, <2>9, <2>10 DEF TypeOK, PageType, ClickType, PoolType, TokenType
<1>11. ASSUME NEW c \in Click, SwitchEthereumChain(c)
      PROVE  TypeOK'
  <2>1. click[c].pc # "idle" /\ click' = [click EXCEPT ![c].pc = "switched"]
    BY <1>11 DEF SwitchEthereumChain, At, Goto
  <2>2. "switched" \in Pc
    BY DEF Pc
  <2>4. ClickType'
    BY <1>0, <2>1, <2>2, GotoType
  <2>5. PageType'
    BY <1>11, <1>0 DEF SwitchEthereumChain, page, PageType, At, Goto
  <2>9. PoolType'
    BY <1>11, <1>0 DEF SwitchEthereumChain, PoolType
  <2>10. TokenType'
    BY <1>11, <1>0 DEF SwitchEthereumChain, tokens, TokenType
  <2> QED
    BY <2>4, <2>5, <2>9, <2>10 DEF TypeOK, PageType, ClickType, PoolType, TokenType
<1>12. ASSUME NEW c \in Click, AfterSwitch(c)
      PROVE  TypeOK'
  <2>1. click[c].pc # "idle"
    BY <1>12 DEF AfterSwitch, At
  <2>2. \/ click' = [click EXCEPT ![c].pc = "send"]
        \/ click' = [click EXCEPT ![c] = NoClick]
    BY <1>12 DEF AfterSwitch, At, GoesOn, Goto, End
  <2>3. "send" \in Pc
    BY DEF Pc
  <2>4. ClickType'
    BY <1>0, <2>1, <2>2, <2>3, GotoType, EndType
  <2>5. PageType'
    BY <1>12, <1>0 DEF AfterSwitch, page, PageType, At, GoesOn, Goto, End, BusyAfter
  <2>9. PoolType'
    BY <1>12, <1>0 DEF AfterSwitch, PoolType
  <2>10. TokenType'
    BY <1>12, <1>0 DEF AfterSwitch, tokens, TokenType
  <2> QED
    BY <2>4, <2>5, <2>9, <2>10 DEF TypeOK, PageType, ClickType, PoolType, TokenType
<1>13. ASSUME NEW c \in Click, Simulated(c)
      PROVE  TypeOK'
  <2>1. click' = [click EXCEPT ![c] = NoClick]
    BY <1>13 DEF Simulated, End
  <2>4. ClickType'
    BY <1>0, <2>1, EndType
  <2>5. PageType'
    BY <1>13, <1>0 DEF Simulated, page, PageType, At, End, BusyAfter
  <2>9. PoolType'
    BY <1>13, <1>0 DEF Simulated, PoolType
  <2>10. TokenType'
    BY <1>13, <1>0 DEF Simulated, tokens, TokenType
  <2> QED
    BY <2>4, <2>5, <2>9, <2>10 DEF TypeOK, PageType, ClickType, PoolType, TokenType
<1>14. ASSUME NEW c \in Click, SendTransaction(c)
      PROVE  TypeOK'
  <2>1. click[c].pc # "idle" /\ click' = [click EXCEPT ![c].pc = "receipt"]
    BY <1>14 DEF SendTransaction, At, Goto
  <2>2. "receipt" \in Pc
    BY DEF Pc
  <2>4. ClickType'
    BY <1>0, <2>1, <2>2, GotoType
  <2>5. PageType'
    BY <1>14, <1>0 DEF SendTransaction, page, PageType, At, Goto
  <2>8. Sent(c, c) \in Tx
    BY <1>14, SentType DEF SendTransaction, At
  <2>9. PoolType'
    BY <1>14, <1>0, <2>8 DEF SendTransaction, PoolType
  <2>10. TokenType'
    BY <1>14, <1>0 DEF SendTransaction, tokens, TokenType
  <2> QED
    BY <2>4, <2>5, <2>9, <2>10 DEF TypeOK, PageType, ClickType, PoolType, TokenType
<1>15. ASSUME NEW c \in Click, SendWithoutHash(c)
      PROVE  TypeOK'
  <2>1. click' = [click EXCEPT ![c] = NoClick]
    BY <1>15 DEF SendWithoutHash, End
  <2>4. ClickType'
    BY <1>0, <2>1, EndType
  <2>5. PageType'
    <3>1. busy' \in BOOLEAN
      BY <1>15, <1>0 DEF SendWithoutHash, PageType, End, BusyAfter
    <3>2. faults' \in Nat
      BY <1>15, <1>0 DEF SendWithoutHash, PageType, Fault
    <3> QED
      BY <1>15, <1>0, <3>1, <3>2 DEF SendWithoutHash, page, PageType
  <2>8. Sent(c, NULL) \in Tx
    BY <1>15, SentType DEF SendWithoutHash, At
  <2>9. PoolType'
    BY <1>15, <1>0, <2>8 DEF SendWithoutHash, PoolType
  <2>10. TokenType'
    BY <1>15, <1>0 DEF SendWithoutHash, tokens, TokenType
  <2> QED
    BY <2>4, <2>5, <2>9, <2>10 DEF TypeOK, PageType, ClickType, PoolType, TokenType
<1>16. ASSUME NEW c \in Click, NEW answer \in Answers(walletOverride), SuccessReceipt(c,
              answer)
      PROVE  TypeOK'
  <2>1. click[c].pc # "idle"
    BY <1>16 DEF SuccessReceipt, At
  <2>2. \/ click' = [click EXCEPT ![c].pc = "refresh"]
        \/ click' = [click EXCEPT ![c] = NoClick]
    BY <1>16 DEF SuccessReceipt, At, End, Goto
  <2>3. "refresh" \in Pc
    BY DEF Pc
  <2>4. ClickType'
    BY <1>0, <2>1, <2>2, <2>3, GotoType, EndType
  <2>6. Asked(c, answer) \in Load
    BY AskedType
  <2>5. PageType'
    BY <1>16, <1>0, <2>6 DEF SuccessReceipt, page, PageType, At, End, Goto, BusyAfter
  <2>9. PoolType'
    BY <1>16, <1>0 DEF SuccessReceipt, PoolType
  <2>10. TokenType'
    BY <1>16, <1>0 DEF SuccessReceipt, tokens, TokenType
  <2> QED
    BY <2>4, <2>5, <2>9, <2>10 DEF TypeOK, PageType, ClickType, PoolType, TokenType
<1>17. ASSUME NEW c \in Click, FailedReceipt(c)
      PROVE  TypeOK'
  <2>1. click' = [click EXCEPT ![c] = NoClick]
    BY <1>17 DEF FailedReceipt, End
  <2>4. ClickType'
    BY <1>0, <2>1, EndType
  <2>5. PageType'
    BY <1>17, <1>0 DEF FailedReceipt, page, PageType, At, End, BusyAfter
  <2>9. PoolType'
    BY <1>17, <1>0 DEF FailedReceipt, PoolType
  <2>10. TokenType'
    BY <1>17, <1>0 DEF FailedReceipt, tokens, TokenType
  <2> QED
    BY <2>4, <2>5, <2>9, <2>10 DEF TypeOK, PageType, ClickType, PoolType, TokenType
<1>18. ASSUME NEW c \in Click, Unconfirmed(c)
      PROVE  TypeOK'
  <2>1. click' = [click EXCEPT ![c] = NoClick]
    BY <1>18 DEF Unconfirmed, End
  <2>4. ClickType'
    BY <1>0, <2>1, EndType
  <2>5. PageType'
    <3>1. busy' \in BOOLEAN
      BY <1>18, <1>0 DEF Unconfirmed, PageType, End, BusyAfter
    <3>2. faults' \in Nat
      BY <1>18, <1>0 DEF Unconfirmed, PageType, Fault, GivesUp
    <3> QED
      BY <1>18, <1>0, <3>1, <3>2 DEF Unconfirmed, page, PageType
  <2>8. \A t \in pool : Abandoned(t, c) \in Tx
    BY <1>0 DEF PoolType, Abandoned, Tx
  <2>9. PoolType'
    BY <1>18, <1>0, <2>8 DEF Unconfirmed, PoolType
  <2>10. TokenType'
    BY <1>18, <1>0 DEF Unconfirmed, tokens, TokenType
  <2> QED
    BY <2>4, <2>5, <2>9, <2>10 DEF TypeOK, PageType, ClickType, PoolType, TokenType
<1>19. ASSUME NEW answer \in Answers(walletOverride), Poll(answer)
      PROVE  TypeOK'
  <2>4. ClickType'
    BY <1>19, <1>0 DEF Poll, ClickType
  <2>6. Asked(NULL, answer) \in Load
    BY AskedType
  <2>5. PageType'
    BY <1>19, <1>0, <2>6 DEF Poll, page, PageType
  <2>9. PoolType'
    BY <1>19, <1>0 DEF Poll, PoolType
  <2>10. TokenType'
    BY <1>19, <1>0 DEF Poll, tokens, TokenType
  <2> QED
    BY <2>4, <2>5, <2>9, <2>10 DEF TypeOK, PageType, ClickType, PoolType, TokenType
<1>20. ASSUME NEW g \in Guest \cup {NULL}, Connect(g)
      PROVE  TypeOK'
  <2>4. ClickType'
    BY <1>20, <1>0 DEF Connect, ClickType
  <2>6. \A l \in loads : Cancel(l) \in Load
    BY <1>0 DEF PageType, Cancel, Load
  <2>7. \A answer \in Answers(g) : Asked(NULL, answer) \in Load
    BY AnswersType DEF Asked, Load
  <2>8. loads' \subseteq Load
    BY <1>20, <2>6, <2>7 DEF Connect
  <2>5. PageType'
    BY <1>20, <1>0, <2>8 DEF Connect, page, PageType
  <2>9. PoolType'
    BY <1>20, <1>0 DEF Connect, PoolType
  <2>10. TokenType'
    BY <1>20, <1>0 DEF Connect, tokens, TokenType
  <2> QED
    BY <2>4, <2>5, <2>9, <2>10 DEF TypeOK, PageType, ClickType, PoolType, TokenType
<1>21. ASSUME NEW l \in loads, Arrive(l)
      PROVE  TypeOK'
  <2>1. l.by \in Click \cup {NULL} /\ l.answer \in Snapshot
    BY <1>0 DEF PageType, Load
  <2>2. ASSUME click' = click PROVE ClickType'
    BY <1>0, <2>2 DEF ClickType
  <2>3. ASSUME l.by \in Click, click' = [click EXCEPT ![l.by] = NoClick]
        PROVE  ClickType'
    BY <1>0, <2>3, EndType
  <2>4. ClickType'
    BY <1>21, <2>1, <2>2, <2>3 DEF Arrive, End
  <2>5. PageType'
    BY <1>21, <1>0, <2>1 DEF Arrive, page, PageType, End, BusyAfter
  <2>9. PoolType'
    BY <1>21, <1>0 DEF Arrive, PoolType
  <2>10. TokenType'
    BY <1>21, <1>0 DEF Arrive, tokens, TokenType
  <2> QED
    BY <2>4, <2>5, <2>9, <2>10 DEF TypeOK, PageType, ClickType, PoolType, TokenType
<1>22. ASSUME MoveWallet
      PROVE  TypeOK'
  <2>1. click' \in [Click -> Task]
    <3>1. \A d \in Click : [click[d] EXCEPT !.strayed = TRUE] \in Task
      BY <1>0 DEF ClickType, Task
    <3> QED
      BY <1>22, <1>0, <3>1 DEF MoveWallet, ClickType
  <2>2. \A d \in Click : /\ click'[d].pc = click[d].pc
                         /\ click'[d].op = click[d].op
                         /\ click'[d].account = click[d].account
    BY <1>22, <1>0 DEF MoveWallet, ClickType, Task
  <2>4. ClickType'
    BY <1>0, <2>1, <2>2 DEF ClickType
  <2>5. PageType'
    BY <1>22, <1>0 DEF MoveWallet, page, PageType, At, Fault
  <2>9. PoolType'
    BY <1>22, <1>0 DEF MoveWallet, PoolType
  <2>10. TokenType'
    BY <1>22, <1>0 DEF MoveWallet, tokens, TokenType
  <2> QED
    BY <2>4, <2>5, <2>9, <2>10 DEF TypeOK, PageType, ClickType, PoolType, TokenType
<1>23. ASSUME NEW t \in pool, Mine(t)
      PROVE  TypeOK'
  <2>1. t.by \in Click \cup {NULL}
    BY <1>0 DEF PoolType, Tx
  <2>2. ASSUME click' = click PROVE ClickType'
    BY <1>0, <2>2 DEF ClickType
  <2>3. ASSUME t.by \in Click,
               click' = [click EXCEPT ![t.by] = [@ EXCEPT !.receipt = "success", !.done = TRUE]]
        PROVE  ClickType'
    BY <1>0, <2>3, ReceiptType
  <2>4. ClickType'
    BY <1>23, <2>1, <2>2, <2>3 DEF Mine, Leaves
  <2>5. PageType'
    BY <1>23, <1>0 DEF Mine, page, PageType, Leaves
  <2>9. PoolType'
    BY <1>23, <1>0 DEF Mine, PoolType, Leaves
  <2>11. t.from \in Guest /\ t.value \in Nat /\ t.op \in Operation
    BY <1>0 DEF PoolType, Tx
  <2>12. ASSUME t.op = "claim" PROVE TokenType'
    BY <1>23, <1>0, <2>11, <2>12 DEF Mine, Execute, TokenType
  <2>13. ASSUME t.op = "approve" PROVE TokenType'
    BY <1>23, <1>0, <2>11, <2>13 DEF Mine, Execute, TokenType
  <2>14. ASSUME t.op = "checkIn" PROVE TokenType'
    <3>1. t.value <= held[t.from] /\ t.value <= allowance[t.from]
      BY <1>23, <2>14 DEF Mine, Accepts
    <3>2. [amount |-> t.value, unlocked |-> FALSE] \in [amount : Nat, unlocked : BOOLEAN]
      BY <2>11
    <3>3. held' \in [Guest -> Nat] /\ allowance' \in [Guest -> Nat]
      BY <1>23, <1>0, <2>11, <2>14, <3>1 DEF Mine, Execute, TokenType
    <3>4. stay' \in [Guest -> [amount : Nat, unlocked : BOOLEAN]]
      BY <1>23, <1>0, <2>11, <2>14, <3>2 DEF Mine, Execute, TokenType
    <3>5. \A g \in Guest : stay'[g].unlocked => stay'[g].amount > 0
      BY <1>23, <1>0, <2>11, <2>14 DEF Mine, Execute, TokenType
    <3> QED
      BY <1>23, <1>0, <2>14, <3>3, <3>4, <3>5 DEF Mine, Execute, TokenType
  <2>15. ASSUME t.op = "checkOut" PROVE TokenType'
    <3>1. NoStay \in [amount : Nat, unlocked : BOOLEAN] /\ ~NoStay.unlocked
      BY DEF NoStay
    <3>2. held' \in [Guest -> Nat]
      BY <1>23, <1>0, <2>11, <2>15 DEF Mine, Execute, TokenType
    <3>3. stay' = [stay EXCEPT ![t.from] = NoStay]
      BY <1>23, <2>15 DEF Mine, Execute, CloseStay
    <3>4. stay' \in [Guest -> [amount : Nat, unlocked : BOOLEAN]]
      BY <1>0, <2>11, <3>1, <3>3 DEF TokenType
    <3>5. \A g \in Guest : stay'[g].unlocked => stay'[g].amount > 0
      BY <1>0, <2>11, <3>1, <3>3 DEF TokenType
    <3> QED
      BY <1>23, <1>0, <2>15, <3>2, <3>4, <3>5 DEF Mine, Execute, TokenType
  <2>10. TokenType'
    BY <2>11, <2>12, <2>13, <2>14, <2>15 DEF Operation
  <2> QED
    BY <2>4, <2>5, <2>9, <2>10 DEF TypeOK, PageType, ClickType, PoolType, TokenType
<1>24. ASSUME NEW t \in pool, Revert(t)
      PROVE  TypeOK'
  <2>1. t.by \in Click \cup {NULL}
    BY <1>0 DEF PoolType, Tx
  <2>2. ASSUME click' = click PROVE ClickType'
    BY <1>0, <2>2 DEF ClickType
  <2>3. ASSUME t.by \in Click,
               click' = [click EXCEPT ![t.by] = [@ EXCEPT !.receipt = "failed", !.done = FALSE]]
        PROVE  ClickType'
    BY <1>0, <2>3, ReceiptType
  <2>4. ClickType'
    BY <1>24, <2>1, <2>2, <2>3 DEF Revert, Leaves
  <2>5. PageType'
    BY <1>24, <1>0 DEF Revert, page, PageType, Leaves
  <2>9. PoolType'
    BY <1>24, <1>0 DEF Revert, PoolType, Leaves
  <2>10. TokenType'
    BY <1>24, <1>0 DEF Revert, tokens, TokenType
  <2> QED
    BY <2>4, <2>5, <2>9, <2>10 DEF TypeOK, PageType, ClickType, PoolType, TokenType
<1>25. ASSUME NEW t \in pool, RevertLate(t)
      PROVE  TypeOK'
  <2>1. t.by \in Click \cup {NULL}
    BY <1>0 DEF PoolType, Tx
  <2>2. ASSUME click' = click PROVE ClickType'
    BY <1>0, <2>2 DEF ClickType
  <2>3. ASSUME t.by \in Click,
               click' = [click EXCEPT ![t.by] = [@ EXCEPT !.receipt = "failed", !.done = FALSE]]
        PROVE  ClickType'
    BY <1>0, <2>3, ReceiptType
  <2>4. ClickType'
    BY <1>25, <2>1, <2>2, <2>3 DEF RevertLate, Leaves
  <2>5. PageType'
    BY <1>25, <1>0 DEF RevertLate, page, PageType, Leaves, Fault
  <2>9. PoolType'
    BY <1>25, <1>0 DEF RevertLate, PoolType, Leaves
  <2>10. TokenType'
    BY <1>25, <1>0 DEF RevertLate, tokens, TokenType
  <2> QED
    BY <2>4, <2>5, <2>9, <2>10 DEF TypeOK, PageType, ClickType, PoolType, TokenType
<1>26. ASSUME NEW t \in pool, MineElsewhere(t)
      PROVE  TypeOK'
  <2>1. t.by \in Click \cup {NULL}
    BY <1>0 DEF PoolType, Tx
  <2>2. ASSUME click' = click PROVE ClickType'
    BY <1>0, <2>2 DEF ClickType
  <2>3. ASSUME t.by \in Click,
               click' = [click EXCEPT ![t.by] = [@ EXCEPT !.receipt = "success", !.done = FALSE]]
        PROVE  ClickType'
    BY <1>0, <2>3, ReceiptType
  <2>4. ClickType'
    BY <1>26, <2>1, <2>2, <2>3 DEF MineElsewhere, Leaves
  <2>5. PageType'
    BY <1>26, <1>0 DEF MineElsewhere, page, PageType, Leaves
  <2>9. PoolType'
    BY <1>26, <1>0 DEF MineElsewhere, PoolType, Leaves
  <2>10. TokenType'
    BY <1>26, <1>0 DEF MineElsewhere, tokens, TokenType
  <2> QED
    BY <2>4, <2>5, <2>9, <2>10 DEF TypeOK, PageType, ClickType, PoolType, TokenType
<1>27. ASSUME NEW t \in pool, Drop(t)
      PROVE  TypeOK'
  <2>1. t.by \in Click \cup {NULL}
    BY <1>0 DEF PoolType, Tx
  <2>2. ASSUME click' = click PROVE ClickType'
    BY <1>0, <2>2 DEF ClickType
  <2>3. ASSUME t.by \in Click,
               click' = [click EXCEPT ![t.by] = [@ EXCEPT !.receipt = "pending", !.done = FALSE]]
        PROVE  ClickType'
    BY <1>0, <2>3, ReceiptType
  <2>4. ClickType'
    BY <1>27, <2>1, <2>2, <2>3 DEF Drop, Leaves
  <2>5. PageType'
    BY <1>27, <1>0 DEF Drop, page, PageType, Leaves, Fault
  <2>9. PoolType'
    BY <1>27, <1>0 DEF Drop, PoolType, Leaves
  <2>10. TokenType'
    BY <1>27, <1>0 DEF Drop, tokens, TokenType
  <2> QED
    BY <2>4, <2>5, <2>9, <2>10 DEF TypeOK, PageType, ClickType, PoolType, TokenType
<1>28. ASSUME NEW g \in Guest, Unlock(g)
      PROVE  TypeOK'
  <2>4. ClickType'
    BY <1>28, <1>0 DEF Unlock, ClickType
  <2>5. PageType'
    BY <1>28, <1>0 DEF Unlock, page, PageType
  <2>9. PoolType'
    BY <1>28, <1>0 DEF Unlock, PoolType
  <2>10. TokenType'
    BY <1>28, <1>0 DEF Unlock, tokens, TokenType
  <2> QED
    BY <2>4, <2>5, <2>9, <2>10 DEF TypeOK, PageType, ClickType, PoolType, TokenType
<1>29. CASE UNCHANGED vars
  BY <1>29 DEF vars, TypeOK
<1> QED
  BY <1>1, <1>2, <1>3, <1>4, <1>5, <1>6, <1>7, <1>8, <1>9, <1>10, <1>11, <1>12, <1>13,
    <1>14, <1>15, <1>16, <1>17, <1>18, <1>19, <1>20, <1>21, <1>22, <1>23, <1>24, <1>25,
    <1>26, <1>27, <1>28, <1>29 DEF Next, Begin, Continue, Loading, OnChain

-----------------------------------------------------------------------------
(* What a click that goes on, or ends, keeps of the rest. *)

LEMMA NullIsNoClick == NULL \notin Click /\ NULL \notin Guest
PROOF BY WalletTxAssumption

LEMMA NothingPending ==
  ASSUME PoolType, PoolInv, NEW c \in Click, click[c].pc # "receipt"
  PROVE  \A t \in pool : t.by # c
PROOF BY NullIsNoClick DEF PoolType, PoolInv

LEMMA GotoInv ==
  ASSUME PageType, ClickType, PoolType, LoadInv, PoolInv, ClickInv, BusyIsExact,
         NEW c \in Click, NEW pc \in Pc \ {"receipt", "refresh"},
         click[c].pc \notin {"idle", "receipt", "refresh"}, Goto(c, pc),
         UNCHANGED page, pool' = pool, claimed' = claimed,
         onHotelChain => onHotelChain', pc = "send" => onHotelChain'
  PROVE  LoadInv' /\ PoolInv' /\ ClickInv' /\ BusyIsExact'
PROOF
<1>1. LoadInv'
  BY DEF PageType, ClickType, Load, Task, page, Goto, LoadInv
<1>2. PoolInv'
  BY DEF ClickType, PoolType, Task, Tx, Pc, Goto, PoolInv
<1>3. ClickInv'
  BY DEF ClickType, Task, Pc, Goto, ClickInv
<1>4. BusyIsExact'
  BY DEF ClickType, Task, Pc, Goto, BusyIsExact
<1> QED
  BY <1>1, <1>2, <1>3, <1>4

LEMMA EndInv ==
  ASSUME PageType, ClickType, PoolType, LoadInv, PoolInv, ClickInv, BusyIsExact,
         NEW c \in Click, click[c].pc \notin {"idle", "refresh"},
         \A t \in pool : t.by # c,
         End(c), UNCHANGED page, pool' = pool, claimed' = claimed,
         onHotelChain' = onHotelChain
  PROVE  LoadInv' /\ PoolInv' /\ ClickInv' /\ BusyIsExact'
PROOF
<1>1. LoadInv'
  BY DEF PageType, ClickType, Load, Task, page, End, NoClick, LoadInv
<1>2. PoolInv'
  BY DEF ClickType, PoolType, Task, Tx, End, NoClick, PoolInv
<1>3. ClickInv'
  BY DEF ClickType, Task, End, NoClick, ClickInv
<1>4. BusyIsExact'
  BY DEF ClickType, Task, End, BusyAfter, NoClick, BusyIsExact
<1> QED
  BY <1>1, <1>2, <1>3, <1>4

-----------------------------------------------------------------------------
LEMMA InvStep ==
  ASSUME IInv, [Next]_vars
  PROVE  LoadInv' /\ PoolInv' /\ ClickInv' /\ BusyIsExact'
PROOF
<1>0. /\ PageType /\ ClickType /\ PoolType /\ TokenType
      /\ LoadInv /\ PoolInv /\ ClickInv /\ BusyIsExact
  BY TypeParts DEF IInv
<1>1. ASSUME NEW c \in Click, OnClaim(c)
      PROVE  LoadInv' /\ PoolInv' /\ ClickInv' /\ BusyIsExact'
  <2>1. LoadInv'
    BY <1>1, <1>0 DEF OnClaim, Starts, page, PageType, Load, ClickType, NoClick, LoadInv
  <2>2. PoolInv'
    BY <1>1, <1>0 DEF OnClaim, Starts, PoolType, Tx, ClickType, NoClick, PoolInv
  <2>3. ClickInv'
    BY <1>1, <1>0 DEF OnClaim, Starts, tokens, ClickType, NoClick, ClickInv
  <2>4. BusyIsExact'
    BY <1>1, <1>0 DEF OnClaim, Starts, ClickType, NoClick, BusyIsExact
  <2> QED
    BY <2>1, <2>2, <2>3, <2>4
<1>2. ASSUME NEW c \in Click, OnCheckOut(c)
      PROVE  LoadInv' /\ PoolInv' /\ ClickInv' /\ BusyIsExact'
  <2>1. LoadInv'
    BY <1>2, <1>0 DEF OnCheckOut, Starts, page, PageType, Load, ClickType, NoClick,
      LoadInv
  <2>2. PoolInv'
    BY <1>2, <1>0 DEF OnCheckOut, Starts, PoolType, Tx, ClickType, NoClick, PoolInv
  <2>3. ClickInv'
    BY <1>2, <1>0 DEF OnCheckOut, Starts, tokens, ClickType, NoClick, ClickInv
  <2>4. BusyIsExact'
    BY <1>2, <1>0 DEF OnCheckOut, Starts, ClickType, NoClick, MayClick, BusyIsExact
  <2> QED
    BY <2>1, <2>2, <2>3, <2>4
<1>3. ASSUME NEW c \in Click, NEW n \in Amount, OnApprove(c, n)
      PROVE  LoadInv' /\ PoolInv' /\ ClickInv' /\ BusyIsExact'
  <2>1. LoadInv'
    BY <1>3, <1>0 DEF OnApprove, ApproveExactHotel, Starts, page, PageType, Load,
      ClickType, NoClick, LoadInv
  <2>2. PoolInv'
    BY <1>3, <1>0 DEF OnApprove, ApproveExactHotel, Starts, PoolType, Tx, ClickType,
      NoClick, PoolInv
  <2>3. ClickInv'
    BY <1>3, <1>0 DEF OnApprove, ApproveExactHotel, Starts, tokens, ClickType, NoClick,
      ClickInv
  <2>4. BusyIsExact'
    BY <1>3, <1>0 DEF OnApprove, ApproveExactHotel, Starts, ClickType, NoClick,
      MayClick, BusyIsExact
  <2> QED
    BY <2>1, <2>2, <2>3, <2>4
<1>4. ASSUME NEW c \in Click, NEW n \in Amount, OnCheckIn(c, n)
      PROVE  LoadInv' /\ PoolInv' /\ ClickInv' /\ BusyIsExact'
  <2>1. LoadInv'
    BY <1>4, <1>0 DEF OnCheckIn, Starts, page, PageType, Load, ClickType, NoClick,
      LoadInv
  <2>2. PoolInv'
    BY <1>4, <1>0 DEF OnCheckIn, Starts, PoolType, Tx, ClickType, NoClick, PoolInv
  <2>3. ClickInv'
    BY <1>4, <1>0 DEF OnCheckIn, Starts, tokens, ClickType, NoClick, ClickInv
  <2>4. BusyIsExact'
    BY <1>4, <1>0 DEF OnCheckIn, Starts, ClickType, NoClick, MayClick, BusyIsExact
  <2> QED
    BY <2>1, <2>2, <2>3, <2>4
<1>5. ASSUME NEW c \in Click, Throw(c)
      PROVE  LoadInv' /\ PoolInv' /\ ClickInv' /\ BusyIsExact'
  <2>1. LoadInv'
    BY <1>5, <1>0 DEF Throw, End, Fault, page, PageType, Load, ClickType, NoClick,
      LoadInv
  <2>2. PoolInv'
    BY <1>5, <1>0 DEF Throw, End, PoolType, Tx, ClickType, NoClick, PoolInv
  <2>3. ClickInv'
    BY <1>5, <1>0 DEF Throw, End, tokens, ClickType, NoClick, ClickInv
  <2>4. BusyIsExact'
    BY <1>5, <1>0 DEF Throw, End, ClickType, NoClick, BusyAfter, BusyIsExact
  <2> QED
    BY <2>1, <2>2, <2>3, <2>4
<1>6. ASSUME NEW c \in Click, PrepareRoomServiceClaim(c)
      PROVE  LoadInv' /\ PoolInv' /\ ClickInv' /\ BusyIsExact'
  <2>1. click[c].pc \notin {"idle", "receipt", "refresh"}
    BY <1>6 DEF PrepareRoomServiceClaim, At
  <2>2. \A t \in pool : t.by # c
    BY <1>0, <2>1, NothingPending
  <2>3. ASSUME click' = [click EXCEPT ![c] = [@ EXCEPT !.pc = "chain",
                                                      !.value = Earned[Account(c)]]],
               busy' = busy
        PROVE  LoadInv' /\ PoolInv' /\ ClickInv' /\ BusyIsExact'
    <3>1. LoadInv'
      BY <1>6, <1>0, <2>1, <2>3 DEF PrepareRoomServiceClaim, page, PageType, ClickType,
                                  Load, Task, LoadInv
    <3>2. PoolInv'
      BY <1>6, <1>0, <2>2, <2>3 DEF PrepareRoomServiceClaim, PoolType, Tx, PoolInv
    <3>3. ClickInv'
      BY <1>6, <1>0, <2>1, <2>3 DEF PrepareRoomServiceClaim, tokens, ClickType, Task,
        ClickInv
    <3>4. BusyIsExact'
      BY <1>0, <2>1, <2>3 DEF ClickType, Task, BusyIsExact
    <3> QED
      BY <3>1, <3>2, <3>3, <3>4
  <2>4. ASSUME End(c) PROVE LoadInv' /\ PoolInv' /\ ClickInv' /\ BusyIsExact'
    BY <1>6, <1>0, <2>1, <2>2, <2>4, EndInv DEF PrepareRoomServiceClaim, tokens
  <2> QED
    BY <1>6, <2>3, <2>4 DEF PrepareRoomServiceClaim
<1>7. ASSUME NEW c \in Click, PrepareCheckInAuthorization(c)
      PROVE  LoadInv' /\ PoolInv' /\ ClickInv' /\ BusyIsExact'
  <2>1. click[c].pc \notin {"idle", "receipt", "refresh"}
    BY <1>7 DEF PrepareCheckInAuthorization, At
  <2>2. \A t \in pool : t.by # c
    BY <1>0, <2>1, NothingPending
  <2>3. ASSUME Goto(c, "allowance") PROVE LoadInv' /\ PoolInv' /\ ClickInv' /\
               BusyIsExact'
    <3>1. "allowance" \in Pc \ {"receipt", "refresh"}
      BY DEF Pc
    <3> QED
      BY <1>7, <1>0, <2>1, <2>3, <3>1, GotoInv DEF PrepareCheckInAuthorization, tokens
  <2>4. ASSUME End(c) PROVE LoadInv' /\ PoolInv' /\ ClickInv' /\ BusyIsExact'
    BY <1>7, <1>0, <2>1, <2>2, <2>4, EndInv DEF PrepareCheckInAuthorization, tokens
  <2> QED
    BY <1>7, <2>3, <2>4 DEF PrepareCheckInAuthorization, GoesOn, ExecuteCheckOut
<1>8. ASSUME NEW c \in Click, ReadHotelAllowance(c)
      PROVE  LoadInv' /\ PoolInv' /\ ClickInv' /\ BusyIsExact'
  <2>1. click[c].pc \notin {"idle", "receipt", "refresh"}
    BY <1>8 DEF ReadHotelAllowance, At
  <2>2. \A t \in pool : t.by # c
    BY <1>0, <2>1, NothingPending
  <2>3. ASSUME Goto(c, "chain") PROVE LoadInv' /\ PoolInv' /\ ClickInv' /\ BusyIsExact'
    <3>1. "chain" \in Pc \ {"receipt", "refresh"}
      BY DEF Pc
    <3> QED
      BY <1>8, <1>0, <2>1, <2>3, <3>1, GotoInv DEF ReadHotelAllowance, tokens
  <2>4. ASSUME End(c) PROVE LoadInv' /\ PoolInv' /\ ClickInv' /\ BusyIsExact'
    BY <1>8, <1>0, <2>1, <2>2, <2>4, EndInv DEF ReadHotelAllowance, tokens
  <2> QED
    BY <1>8, <2>3, <2>4 DEF ReadHotelAllowance, GoesOn, ExecuteCheckOut
<1>9. ASSUME NEW c \in Click, ReadStayFromContract(c)
      PROVE  LoadInv' /\ PoolInv' /\ ClickInv' /\ BusyIsExact'
  <2>1. click[c].pc \notin {"idle", "receipt", "refresh"}
    BY <1>9 DEF ReadStayFromContract, At
  <2>2. \A t \in pool : t.by # c
    BY <1>0, <2>1, NothingPending
  <2>3. ASSUME Goto(c, "chain") PROVE LoadInv' /\ PoolInv' /\ ClickInv' /\ BusyIsExact'
    <3>1. "chain" \in Pc \ {"receipt", "refresh"}
      BY DEF Pc
    <3> QED
      BY <1>9, <1>0, <2>1, <2>3, <3>1, GotoInv DEF ReadStayFromContract, tokens
  <2>4. ASSUME End(c) PROVE LoadInv' /\ PoolInv' /\ ClickInv' /\ BusyIsExact'
    BY <1>9, <1>0, <2>1, <2>2, <2>4, EndInv DEF ReadStayFromContract, tokens
  <2> QED
    BY <1>9, <2>3, <2>4 DEF ReadStayFromContract, GoesOn, ExecuteCheckOut
<1>10. ASSUME NEW c \in Click, EnsureRobinhoodChain(c)
      PROVE  LoadInv' /\ PoolInv' /\ ClickInv' /\ BusyIsExact'
  <2>1. LoadInv'
    BY <1>10, <1>0 DEF EnsureRobinhoodChain, At, Goto, page, PageType, Load, ClickType,
      Task, LoadInv
  <2>2. PoolInv'
    BY <1>10, <1>0 DEF EnsureRobinhoodChain, At, Goto, PoolType, Tx, ClickType, Task,
      PoolInv
  <2>3. ClickInv'
    BY <1>10, <1>0 DEF EnsureRobinhoodChain, At, Goto, tokens, ClickType, Task, ClickInv
  <2>4. BusyIsExact'
    BY <1>10, <1>0 DEF EnsureRobinhoodChain, At, Goto, ClickType, Task, BusyIsExact
  <2> QED
    BY <2>1, <2>2, <2>3, <2>4
<1>11. ASSUME NEW c \in Click, SwitchEthereumChain(c)
      PROVE  LoadInv' /\ PoolInv' /\ ClickInv' /\ BusyIsExact'
  <2>1. click[c].pc \notin {"idle", "receipt", "refresh"}
    BY <1>11 DEF SwitchEthereumChain, At
  <2>2. "switched" \in Pc \ {"receipt", "refresh"} /\ "switched" # "send"
    BY DEF Pc
  <2>3. onHotelChain => onHotelChain'
    BY <1>11 DEF SwitchEthereumChain
  <2> QED
    BY <1>11, <1>0, <2>1, <2>2, <2>3, GotoInv DEF SwitchEthereumChain, tokens
<1>12. ASSUME NEW c \in Click, AfterSwitch(c)
      PROVE  LoadInv' /\ PoolInv' /\ ClickInv' /\ BusyIsExact'
  <2>1. click[c].pc \notin {"idle", "receipt", "refresh"}
    BY <1>12 DEF AfterSwitch, At
  <2>2. \A t \in pool : t.by # c
    BY <1>0, <2>1, NothingPending
  <2>3. CASE onHotelChain
    <3>1. Goto(c, "send")
      BY <1>12, <2>3 DEF AfterSwitch, GoesOn, StillWrong
    <3>2. "send" \in Pc \ {"receipt", "refresh"}
      BY DEF Pc
    <3> QED
      BY <1>12, <1>0, <2>1, <2>3, <3>1, <3>2, GotoInv DEF AfterSwitch, tokens
  <2>4. CASE ~onHotelChain
    <3>1. End(c)
      BY <1>12, <2>4 DEF AfterSwitch, GoesOn, StillWrong
    <3> QED
      BY <1>12, <1>0, <2>1, <2>2, <3>1, EndInv DEF AfterSwitch, tokens
  <2> QED
    BY <2>3, <2>4
<1>13. ASSUME NEW c \in Click, Simulated(c)
      PROVE  LoadInv' /\ PoolInv' /\ ClickInv' /\ BusyIsExact'
  <2>1. LoadInv'
    BY <1>13, <1>0 DEF Simulated, At, End, page, PageType, Load, ClickType, NoClick,
      LoadInv
  <2>2. PoolInv'
    BY <1>13, <1>0 DEF Simulated, At, End, PoolType, Tx, ClickType, NoClick, PoolInv
  <2>3. ClickInv'
    BY <1>13, <1>0 DEF Simulated, At, End, tokens, ClickType, NoClick, ClickInv
  <2>4. BusyIsExact'
    BY <1>13, <1>0 DEF Simulated, At, End, ClickType, NoClick, BusyAfter, BusyIsExact
  <2> QED
    BY <2>1, <2>2, <2>3, <2>4
<1>14. ASSUME NEW c \in Click, SendTransaction(c)
      PROVE  LoadInv' /\ PoolInv' /\ ClickInv' /\ BusyIsExact'
  <2>1. click[c].pc = "send" /\ \A t \in pool : t.by # c
    BY <1>14, <1>0, NothingPending DEF SendTransaction, At
  <2>2. /\ click' = [click EXCEPT ![c].pc = "receipt"] /\ busy' = busy
        /\ pool' = pool \cup {Sent(c, c)}
    BY <1>14 DEF SendTransaction, Goto
  <2>3. /\ Sent(c, c).by = c /\ Sent(c, c).op = click[c].op
        /\ Sent(c, c).from = click[c].account /\ Sent(c, c).value = click[c].value
        /\ Sent(c, c).hotel = onHotelChain
    BY DEF Sent, Account
  <2>4. LoadInv'
    BY <1>14, <1>0, <2>1, <2>2 DEF SendTransaction, page, PageType, ClickType, Load,
      Task, LoadInv
  <2>5. PoolInv'
    <3>1. click[c].receipt = "pending" /\ (~click[c].strayed => onHotelChain)
      BY <1>0, <2>1 DEF ClickInv
    <3>2. /\ click'[c].pc = "receipt" /\ click'[c].receipt = click[c].receipt
          /\ click'[c].op = click[c].op /\ click'[c].account = click[c].account
          /\ click'[c].value = click[c].value /\ click'[c].strayed = click[c].strayed
      BY <1>0, <2>2 DEF ClickType, Task
    <3>3. \A t \in pool : t.by # NULL => click'[t.by] = click[t.by]
      BY <1>0, <2>1, <2>2 DEF ClickType, PoolType, Tx
    <3>4. \A t \in pool' : t.by = c => t = Sent(c, c)
      BY <2>1, <2>2
    <3>5. ASSUME NEW t \in pool', t.by # NULL
          PROVE  /\ click'[t.by].pc = "receipt" /\ click'[t.by].receipt = "pending"
                 /\ t.op = click'[t.by].op /\ t.from = click'[t.by].account
                 /\ t.value = click'[t.by].value
                 /\ ~click'[t.by].strayed => t.hotel
                 /\ \A u \in pool' : u.by = t.by => u = t
      <4>1. CASE t = Sent(c, c)
        BY <4>1, <2>3, <3>1, <3>2, <3>4
      <4>2. CASE t \in pool
        BY <4>2, <3>5, <1>0, <2>1, <2>2, <2>3, <3>3 DEF PoolInv
      <4> QED
        BY <2>2, <4>1, <4>2
    <3> QED
      BY <3>5 DEF PoolInv
  <2>6. ClickInv'
    BY <1>14, <1>0, <2>1, <2>2 DEF SendTransaction, tokens, ClickType, Task, ClickInv
  <2>7. BusyIsExact'
    BY <1>0, <2>1, <2>2 DEF ClickType, Task, BusyIsExact
  <2> QED
    BY <2>4, <2>5, <2>6, <2>7
<1>15. ASSUME NEW c \in Click, SendWithoutHash(c)
      PROVE  LoadInv' /\ PoolInv' /\ ClickInv' /\ BusyIsExact'
  <2>1. LoadInv'
    BY <1>15, <1>0 DEF SendWithoutHash, At, End, Fault, page, PageType, Load, ClickType,
      NoClick, LoadInv
  <2>2. PoolInv'
    BY <1>15, <1>0 DEF SendWithoutHash, At, End, PoolType, Tx, ClickType, NoClick, Sent,
      Account, PoolInv
  <2>3. ClickInv'
    BY <1>15, <1>0 DEF SendWithoutHash, At, End, tokens, ClickType, NoClick, ClickInv
  <2>4. BusyIsExact'
    BY <1>15, <1>0 DEF SendWithoutHash, At, End, ClickType, NoClick, BusyAfter,
      BusyIsExact
  <2> QED
    BY <2>1, <2>2, <2>3, <2>4
<1>16. ASSUME NEW c \in Click, NEW answer \in Answers(walletOverride), SuccessReceipt(c,
              answer)
      PROVE  LoadInv' /\ PoolInv' /\ ClickInv' /\ BusyIsExact'
  <2>1. click[c].pc = "receipt" /\ click[c].receipt = "success"
    BY <1>16 DEF SuccessReceipt, At
  <2>2. \A t \in pool : t.by # c
    BY <1>0, <2>1, NullIsNoClick DEF PoolInv
  <2>3. CASE click[c].op = "approve"
    <3>1. End(c) /\ UNCHANGED page
      BY <1>16, <2>3 DEF SuccessReceipt, page
    <3> QED
      BY <1>16, <1>0, <2>1, <2>2, <3>1, EndInv DEF SuccessReceipt, tokens
  <2>4. CASE click[c].op # "approve"
    <3>1. /\ click' = [click EXCEPT ![c].pc = "refresh"] /\ busy' = busy
          /\ loads' = loads \cup {Asked(c, answer)}
      BY <1>16, <2>4 DEF SuccessReceipt, Goto
    <3>2. answer.of = walletOverride
      BY <1>0, AnswersType DEF IInv, PageType
    <3>3. LoadInv'
      <4>1. \A l \in loads : l.by # c
        BY <1>0, <2>1, NullIsNoClick DEF LoadInv
      <4>2. /\ Asked(c, answer).by = c /\ Asked(c, answer).answer = answer
            /\ ~Asked(c, answer).cancelled
        BY DEF Asked
      <4>3. walletOverride' = walletOverride
        BY <1>16 DEF SuccessReceipt
      <4>4. ASSUME NEW l \in loads'
            PROVE  /\ ~l.cancelled => l.answer.of = walletOverride
                   /\ l.by # NULL => /\ click'[l.by].pc = "refresh"
                                     /\ \A m \in loads' : m.by = l.by => m = l
        <5>1. CASE l = Asked(c, answer)
          <6>1. click'[c].pc = "refresh"
            BY <1>0, <3>1 DEF ClickType, Task
          <6> QED
            BY <5>1, <6>1, <3>1, <3>2, <4>1, <4>2
        <5>2. CASE l \in loads
          <6>1. l.by # NULL => l.by \in Click /\ click'[l.by] = click[l.by]
            BY <5>2, <1>0, <3>1, <4>1 DEF PageType, Load, ClickType
          <6> QED
            BY <5>2, <6>1, <1>0, <3>1, <4>1, <4>2 DEF LoadInv
        <5> QED
          BY <3>1, <5>1, <5>2
      <4> QED
        BY <4>3, <4>4 DEF LoadInv
    <3>4. PoolInv'
      BY <1>16, <1>0, <2>2, <3>1 DEF SuccessReceipt, ClickType, Task, PoolType, Tx,
        PoolInv
    <3>5. ClickInv'
      BY <1>16, <1>0, <2>1, <3>1 DEF SuccessReceipt, tokens, ClickType, Task, ClickInv
    <3>6. BusyIsExact'
      BY <1>0, <2>1, <3>1 DEF ClickType, Task, BusyIsExact
    <3> QED
      BY <3>3, <3>4, <3>5, <3>6
  <2> QED
    BY <2>3, <2>4
<1>17. ASSUME NEW c \in Click, FailedReceipt(c)
      PROVE  LoadInv' /\ PoolInv' /\ ClickInv' /\ BusyIsExact'
  <2>1. LoadInv'
    BY <1>17, <1>0 DEF FailedReceipt, At, End, page, PageType, Load, ClickType, NoClick,
      LoadInv
  <2>2. PoolInv'
    BY <1>17, <1>0 DEF FailedReceipt, At, End, PoolType, Tx, ClickType, NoClick, PoolInv
  <2>3. ClickInv'
    BY <1>17, <1>0 DEF FailedReceipt, At, End, tokens, ClickType, NoClick, ClickInv
  <2>4. BusyIsExact'
    BY <1>17, <1>0 DEF FailedReceipt, At, End, ClickType, NoClick, BusyAfter,
      BusyIsExact
  <2> QED
    BY <2>1, <2>2, <2>3, <2>4
<1>18. ASSUME NEW c \in Click, Unconfirmed(c)
      PROVE  LoadInv' /\ PoolInv' /\ ClickInv' /\ BusyIsExact'
  <2>1. LoadInv'
    BY <1>18, <1>0 DEF Unconfirmed, GivesUp, At, End, Fault, page, PageType, Load,
      ClickType, NoClick, LoadInv
  <2>2. PoolInv'
    BY <1>18, <1>0 DEF Unconfirmed, GivesUp, At, End, PoolType, Tx, ClickType, NoClick,
      Abandoned, PoolInv
  <2>3. ClickInv'
    BY <1>18, <1>0 DEF Unconfirmed, GivesUp, At, End, tokens, ClickType, NoClick,
      ClickInv
  <2>4. BusyIsExact'
    BY <1>18, <1>0 DEF Unconfirmed, GivesUp, At, End, ClickType, NoClick, BusyAfter,
      BusyIsExact
  <2> QED
    BY <2>1, <2>2, <2>3, <2>4
<1>19. ASSUME NEW answer \in Answers(walletOverride), Poll(answer)
      PROVE  LoadInv' /\ PoolInv' /\ ClickInv' /\ BusyIsExact'
  <2>1. LoadInv'
    BY <1>19, <1>0 DEF Poll, page, PageType, Load, Asked, Answers, FailClosed, LoadInv
  <2>2. PoolInv'
    BY <1>19, <1>0 DEF Poll, PoolInv
  <2>3. ClickInv'
    BY <1>19, <1>0 DEF Poll, tokens, ClickInv
  <2>4. BusyIsExact'
    BY <1>19, <1>0 DEF Poll, BusyIsExact
  <2> QED
    BY <2>1, <2>2, <2>3, <2>4
<1>20. ASSUME NEW g \in Guest \cup {NULL}, Connect(g)
      PROVE  LoadInv' /\ PoolInv' /\ ClickInv' /\ BusyIsExact'
  <2>1. PICK answer \in Answers(g) :
          loads' = {Cancel(l) : l \in loads} \cup {Asked(NULL, answer)}
    BY <1>20 DEF Connect
  <2>2. answer.of = walletOverride'
    BY <1>20, <1>0, AnswersType DEF Connect, IInv
  <2>3. /\ Asked(NULL, answer).by = NULL /\ Asked(NULL, answer).answer = answer
    BY DEF Asked
  <2>4. \A l \in loads : Cancel(l).by = l.by /\ Cancel(l).cancelled
    BY <1>0 DEF PageType, Load, Cancel
  <2>5. ASSUME NEW l \in loads'
        PROVE  /\ ~l.cancelled => l.answer.of = walletOverride'
               /\ l.by # NULL => /\ click[l.by].pc = "refresh"
                                 /\ \A m \in loads' : m.by = l.by => m = l
    <3>1. CASE l = Asked(NULL, answer)
      BY <3>1, <2>2, <2>3
    <3>2. CASE \E k \in loads : l = Cancel(k)
      <4>1. PICK k \in loads : l = Cancel(k)
        BY <3>2
      <4>2. ASSUME l.by # NULL, NEW m \in loads', m.by = l.by
            PROVE  m = l
        <5>1. PICK j \in loads : m = Cancel(j)
          BY <4>2, <2>1, <2>3
        <5>2. j = k
          BY <4>1, <4>2, <5>1, <1>0, <2>4 DEF LoadInv
        <5> QED
          BY <4>1, <5>1, <5>2
      <4> QED
        BY <4>1, <4>2, <1>0, <2>4 DEF LoadInv
    <3> QED
      BY <2>1, <3>1, <3>2
  <2>6. LoadInv'
    BY <1>20, <2>5 DEF Connect, LoadInv
  <2>7. PoolInv' /\ ClickInv'
    BY <1>20, <1>0 DEF Connect, tokens, PoolInv, ClickInv
  <2>8. BusyIsExact'
    BY <1>20, <1>0 DEF Connect, BusyIsExact
  <2> QED
    BY <2>6, <2>7, <2>8
<1>21. ASSUME NEW l \in loads, Arrive(l)
      PROVE  LoadInv' /\ PoolInv' /\ ClickInv' /\ BusyIsExact'
  <2>1. CASE l.by = NULL
    <3>1. /\ click' = click /\ busy' = busy /\ pool' = pool
          /\ onHotelChain' = onHotelChain /\ claimed' = claimed
          /\ walletOverride' = walletOverride /\ loads' = loads \ {l}
      BY <1>21, <2>1 DEF Arrive, tokens
    <3>2. LoadInv'
      BY <1>0, <3>1 DEF LoadInv
    <3>3. PoolInv' /\ ClickInv'
      BY <1>0, <3>1 DEF PoolInv, ClickInv
    <3>4. BusyIsExact'
      BY <1>0, <3>1 DEF BusyIsExact
    <3> QED
      BY <3>2, <3>3, <3>4
  <2>2. CASE l.by # NULL
    <3>1. l.by \in Click /\ click[l.by].pc = "refresh"
      BY <1>0, <2>2 DEF PageType, Load, LoadInv
    <3>2. /\ End(l.by) /\ pool' = pool
          /\ onHotelChain' = onHotelChain /\ claimed' = claimed
          /\ walletOverride' = walletOverride /\ loads' = loads \ {l}
      BY <1>21, <2>2 DEF Arrive, tokens
    <3>3. \A t \in pool : t.by # l.by
      BY <1>0, <3>1, NothingPending
    <3>4. \A m \in loads \ {l} : m.by # l.by
      BY <1>0, <2>2 DEF LoadInv
    <3>5. LoadInv'
      BY <1>0, <3>1, <3>2, <3>4 DEF PageType, Load, ClickType, End, NoClick, LoadInv
    <3>6. PoolInv'
      BY <1>0, <3>1, <3>2, <3>3 DEF ClickType, PoolType, Tx, End, NoClick, PoolInv
    <3>7. ClickInv'
      BY <1>0, <3>1, <3>2 DEF ClickType, Task, End, NoClick, ClickInv
    <3>8. BusyIsExact'
      BY <1>0, <3>1, <3>2 DEF ClickType, Task, End, BusyAfter, NoClick, BusyIsExact
    <3> QED
      BY <3>5, <3>6, <3>7, <3>8
  <2> QED
    BY <2>1, <2>2
<1>22. ASSUME MoveWallet
      PROVE  LoadInv' /\ PoolInv' /\ ClickInv' /\ BusyIsExact'
  <2>1. LoadInv'
    BY <1>22, <1>0 DEF MoveWallet, At, Fault, page, PageType, Load, ClickType, Task,
      LoadInv
  <2>2. PoolInv'
    BY <1>22, <1>0 DEF MoveWallet, At, PoolType, Tx, ClickType, Task, PoolInv
  <2>3. ClickInv'
    BY <1>22, <1>0 DEF MoveWallet, At, tokens, ClickType, Task, ClickInv
  <2>4. BusyIsExact'
    BY <1>22, <1>0 DEF MoveWallet, At, ClickType, Task, BusyIsExact
  <2> QED
    BY <2>1, <2>2, <2>3, <2>4
<1>23. ASSUME NEW t \in pool, Mine(t)
      PROVE  LoadInv' /\ PoolInv' /\ ClickInv' /\ BusyIsExact'
  <2>1. LoadInv'
    BY <1>23, <1>0 DEF Mine, Leaves, page, PageType, Load, ClickType, Task, LoadInv
  <2>2. PoolInv'
    BY <1>23, <1>0 DEF Mine, Leaves, PoolType, Tx, ClickType, Task, PoolInv
  <2>3. ClickInv'
    <3>1. t.by \in Click \cup {NULL} /\ t.value \in Nat /\ t.from \in Guest
      BY <1>0 DEF PoolType, Tx
    <3>2. \A g \in Guest : claimed'[g] >= claimed[g]
      <4>1. CASE t.op = "claim"
        <5>1. t.value > claimed[t.from]
          BY <1>23, <4>1 DEF Mine, Accepts
        <5>2. claimed' = [claimed EXCEPT ![t.from] = t.value]
          BY <1>23, <4>1 DEF Mine, Execute
        <5> QED
          BY <1>0, <3>1, <5>1, <5>2 DEF TokenType
      <4>2. CASE t.op # "claim"
        <5>1. claimed' = claimed
          BY <1>23, <4>2 DEF Mine, Execute
        <5> QED
          BY <1>0, <5>1 DEF TokenType
      <4> QED
        BY <4>1, <4>2
    <3>3. t.op = "claim" => claimed'[t.from] = t.value
      BY <1>23, <1>0, <3>1 DEF Mine, Execute, TokenType
    <3>4. \A g \in Guest : claimed[g] \in Nat /\ claimed'[g] \in Nat
      BY <1>23, <1>0, <3>1 DEF Mine, Execute, TokenType
    <3>5. onHotelChain' = onHotelChain
      BY <1>23 DEF Mine, Leaves
    <3>6. ASSUME NEW c \in Click, c = t.by
          PROVE  /\ click'[c].pc = "receipt" /\ click'[c].receipt = "success"
                 /\ click'[c].done
                 /\ click'[c].op = "claim" => click'[c].value <= claimed'[click'[c].account]
      <4>1. /\ click[c].pc = "receipt" /\ t.op = click[c].op
            /\ t.from = click[c].account /\ t.value = click[c].value
        BY <3>6, <1>0, NullIsNoClick DEF PoolInv
      <4>2. click' = [click EXCEPT ![c] = [@ EXCEPT !.receipt = "success", !.done = TRUE]]
        BY <1>23, <3>6, NullIsNoClick DEF Mine, Leaves
      <4>3. /\ click'[c].pc = click[c].pc /\ click'[c].op = click[c].op
            /\ click'[c].account = click[c].account /\ click'[c].value = click[c].value
            /\ click'[c].receipt = "success" /\ click'[c].done
        BY <1>0, <4>2 DEF ClickType, Task
      <4> QED
        BY <3>1, <3>3, <4>1, <4>3
    <3>7. ASSUME NEW c \in Click, c # t.by
          PROVE  click'[c] = click[c]
      BY <1>23, <3>7, <1>0, <3>1 DEF Mine, Leaves, ClickType
    <3>8. \A c \in Click : click[c].pc # "idle" =>
            click[c].account \in Guest /\ click[c].value \in Nat
      BY <1>0 DEF ClickType, Task
    <3>9. ASSUME NEW c \in Click, c # t.by, click[c].done, click[c].op = "claim"
          PROVE  click[c].value <= claimed'[click[c].account]
      <4>1. click[c].pc # "idle" /\ click[c].value <= claimed[click[c].account]
        BY <3>9, <1>0 DEF ClickInv
      <4> QED
        BY <3>2, <3>4, <3>8, <4>1
    <3> QED
      BY <1>0, <3>5, <3>6, <3>7, <3>9 DEF ClickInv
  <2>4. BusyIsExact'
    BY <1>23, <1>0 DEF Mine, Leaves, ClickType, Task, BusyIsExact
  <2> QED
    BY <2>1, <2>2, <2>3, <2>4
<1>24. ASSUME NEW t \in pool, Revert(t)
      PROVE  LoadInv' /\ PoolInv' /\ ClickInv' /\ BusyIsExact'
  <2>1. LoadInv'
    BY <1>24, <1>0 DEF Revert, Leaves, page, PageType, Load, ClickType, Task, LoadInv
  <2>2. PoolInv'
    BY <1>24, <1>0 DEF Revert, Leaves, PoolType, Tx, ClickType, Task, PoolInv
  <2>3. ClickInv'
    BY <1>24, <1>0 DEF Revert, Leaves, tokens, ClickType, Task, PoolInv, PoolType, Tx,
      ClickInv
  <2>4. BusyIsExact'
    BY <1>24, <1>0 DEF Revert, Leaves, ClickType, Task, BusyIsExact
  <2> QED
    BY <2>1, <2>2, <2>3, <2>4
<1>25. ASSUME NEW t \in pool, RevertLate(t)
      PROVE  LoadInv' /\ PoolInv' /\ ClickInv' /\ BusyIsExact'
  <2>1. LoadInv'
    BY <1>25, <1>0 DEF RevertLate, Leaves, Fault, page, PageType, Load, ClickType, Task,
      LoadInv
  <2>2. PoolInv'
    BY <1>25, <1>0 DEF RevertLate, Leaves, PoolType, Tx, ClickType, Task, PoolInv
  <2>3. ClickInv'
    BY <1>25, <1>0 DEF RevertLate, Leaves, tokens, ClickType, Task, PoolInv, PoolType,
      Tx, ClickInv
  <2>4. BusyIsExact'
    BY <1>25, <1>0 DEF RevertLate, Leaves, ClickType, Task, BusyIsExact
  <2> QED
    BY <2>1, <2>2, <2>3, <2>4
<1>26. ASSUME NEW t \in pool, MineElsewhere(t)
      PROVE  LoadInv' /\ PoolInv' /\ ClickInv' /\ BusyIsExact'
  <2>1. LoadInv'
    BY <1>26, <1>0 DEF MineElsewhere, Leaves, page, PageType, Load, ClickType, Task,
      LoadInv
  <2>2. PoolInv'
    BY <1>26, <1>0 DEF MineElsewhere, Leaves, PoolType, Tx, ClickType, Task, PoolInv
  <2>3. ClickInv'
    BY <1>26, <1>0 DEF MineElsewhere, Leaves, tokens, ClickType, Task, PoolInv,
      PoolType, Tx, ClickInv
  <2>4. BusyIsExact'
    BY <1>26, <1>0 DEF MineElsewhere, Leaves, ClickType, Task, BusyIsExact
  <2> QED
    BY <2>1, <2>2, <2>3, <2>4
<1>27. ASSUME NEW t \in pool, Drop(t)
      PROVE  LoadInv' /\ PoolInv' /\ ClickInv' /\ BusyIsExact'
  <2>1. LoadInv'
    BY <1>27, <1>0 DEF Drop, Leaves, Fault, page, PageType, Load, ClickType, Task,
      LoadInv
  <2>2. PoolInv'
    BY <1>27, <1>0 DEF Drop, Leaves, PoolType, Tx, ClickType, Task, PoolInv
  <2>3. ClickInv'
    BY <1>27, <1>0 DEF Drop, Leaves, tokens, ClickType, Task, PoolInv, PoolType, Tx,
      ClickInv
  <2>4. BusyIsExact'
    BY <1>27, <1>0 DEF Drop, Leaves, ClickType, Task, BusyIsExact
  <2> QED
    BY <2>1, <2>2, <2>3, <2>4
<1>28. ASSUME NEW g \in Guest, Unlock(g)
      PROVE  LoadInv' /\ PoolInv' /\ ClickInv' /\ BusyIsExact'
  <2>1. LoadInv'
    BY <1>28, <1>0 DEF Unlock, page, LoadInv
  <2>2. PoolInv'
    BY <1>28, <1>0 DEF Unlock, PoolInv
  <2>3. ClickInv'
    BY <1>28, <1>0 DEF Unlock, tokens, ClickInv
  <2>4. BusyIsExact'
    BY <1>28, <1>0 DEF Unlock, BusyIsExact
  <2> QED
    BY <2>1, <2>2, <2>3, <2>4
<1>29. CASE UNCHANGED vars
  <2>1. LoadInv' /\ PoolInv' /\ ClickInv'
    BY <1>29, <1>0 DEF vars, LoadInv, PoolInv, ClickInv
  <2>2. BusyIsExact'
    BY <1>29, <1>0 DEF vars, BusyIsExact
  <2> QED
    BY <2>1, <2>2
<1> QED
  BY <1>1, <1>2, <1>3, <1>4, <1>5, <1>6, <1>7, <1>8, <1>9, <1>10, <1>11, <1>12, <1>13,
    <1>14, <1>15, <1>16, <1>17, <1>18, <1>19, <1>20, <1>21, <1>22, <1>23, <1>24, <1>25,
    <1>26, <1>27, <1>28, <1>29 DEF Next, Begin, Continue, Loading, OnChain

-----------------------------------------------------------------------------
(* The theorems. *)

LEMMA InitIInv == Init => IInv
PROOF
<1> SUFFICES ASSUME Init PROVE IInv
  OBVIOUS
<1>1. TypeOK
  <2>1. NoClick \in Task /\ NoClick.pc = "idle"
    BY DEF NoClick, Task
  <2>2. FailClosed(NULL) \in Snapshot
    BY DEF FailClosed, Snapshot
  <2>3. ClickType
    BY <2>1 DEF Init, ClickType
  <2>4. PageType
    BY <2>2 DEF Init, PageType
  <2>5. TokenType
    BY WalletTxAssumption DEF Init, NoStay, TokenType
  <2>6. PoolType
    BY DEF Init, PoolType
  <2> QED
    BY <2>3, <2>4, <2>5, <2>6, TypeParts
<1>2. LoadInv /\ PoolInv
  BY DEF Init, LoadInv, PoolInv
<1>3. ClickInv
  BY DEF Init, NoClick, ClickInv
<1>4. BusyIsExact
  BY DEF Init, NoClick, BusyIsExact
<1> QED
  BY <1>1, <1>2, <1>3, <1>4 DEF IInv

LEMMA NextIInv == IInv /\ [Next]_vars => IInv'
PROOF
<1> SUFFICES ASSUME IInv, [Next]_vars PROVE IInv'
  OBVIOUS
<1>1. TypeOK'
  BY TypeStep DEF IInv
<1> QED
  BY <1>1, InvStep DEF IInv

\* What IInv says holds in every state.
THEOREM Inductive == Spec => []IInv
PROOF BY InitIInv, NextIInv, PTL DEF Spec

\* The page, the wallet and the chain keep their types.
THEOREM TypeCorrect == Spec => []TypeOK
PROOF
<1>1. IInv => TypeOK
  BY DEF IInv
<1> QED
  BY <1>1, Inductive, PTL

\* However many clicks run at once and whatever becomes of their transactions, what
\* the page calls confirmed was mined with success on the hotel's chain
\* (waitForSuccessReceipt).
THEOREM ConfirmedWasMined == Spec => []ConfirmedIsDone
PROOF
<1>1. IInv => ConfirmedIsDone
  BY DEF IInv, ClickInv, ConfirmedIsDone
<1> QED
  BY <1>1, Inductive, PTL

\* However many clicks run at once and however they end, the buttons are disabled as
\* long as one of them is at work, and no longer (checkInBusy).
THEOREM ButtonsComeBack == Spec => []BusyIsExact
PROOF
<1>1. IInv => BusyIsExact
  BY DEF IInv
<1> QED
  BY <1>1, Inductive, PTL

\* However many loads overlap, the page never shows one account what was loaded for
\* another (the cancelled flag of the effect).
THEOREM SnapshotsAreOfTheWallet == Spec => SnapshotOfTheWallet
PROOF
<1>1. ASSUME IInv, [Next]_vars
      PROVE  [snapshot' # snapshot => snapshot'.of = walletOverride]_vars
  <2>1. \A l \in loads : Arrive(l) /\ snapshot' # snapshot => snapshot'.of = walletOverride
    BY <1>1 DEF IInv, LoadInv, Arrive
  <2>2. snapshot' # snapshot => \E l \in loads : Arrive(l)
    BY <1>1 DEF Next, Begin, Continue, Loading, OnChain, OnClaim, OnApprove, OnCheckIn,
      OnCheckOut, ApproveExactHotel, Starts, Throw, PrepareRoomServiceClaim,
      PrepareCheckInAuthorization, ReadHotelAllowance, ReadStayFromContract,
      EnsureRobinhoodChain, SwitchEthereumChain, AfterSwitch, Simulated, SendTransaction,
      SendWithoutHash, SuccessReceipt, FailedReceipt, Unconfirmed, Poll, Connect, MoveWallet,
      Mine, Revert, RevertLate, MineElsewhere, Drop, Leaves, Unlock, page, vars
  <2> QED
    BY <2>1, <2>2
<1> QED
  BY <1>1, Inductive, PTL DEF Spec, SnapshotOfTheWallet

=============================================================================
