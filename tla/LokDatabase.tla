----------------------------- MODULE LokDatabase -----------------------------
(***************************************************************************)
(* The SQLite tables (internal/database): one operator per function that   *)
(* reads or writes them.  Every write is one gorm transaction, so it is    *)
(* atomic, and it either happens or reports an error and changes nothing.  *)
(*                                                                         *)
(* A singleton identifies a lok.  Tables whose primary key is the lok are  *)
(* functions from loks to a row or NoRow; a height stands for itself, 0    *)
(* for "not in a block yet".  Addresses, fee parameters and amounts are    *)
(* left out.  The key table stands for the designate table as well: every  *)
(* operation writes, moves and deletes the two together.                   *)
(*                                                                         *)
(* SQLite enforces no foreign key unless the connection asks for it, and   *)
(* connOpts (database.go:43) does not.                                     *)
(***************************************************************************)
EXTENDS ChainFeed, FiniteSetsExt

CONSTANTS
  Loks,             \* singletons
  LokOf,            \* the lok of each lok transaction
  NoRow,            \* no row with that key
  MaxCursorEntries  \* maxCursorEntries

ASSUME DatabaseAssumption ==
  /\ LokOf \in [Txs -> Loks]
  /\ NoRow \notin Nat /\ NoRow \notin [tx : Txs, height : Nat, confirmed : BOOLEAN]
  /\ NoRow \notin [tx : Txs, height : Nat, hash : Blocks \cup {Root}, confirmed : BOOLEAN]
  /\ MaxCursorEntries \in Nat

VARIABLES
  block,      \* table block: the block stored for a height
  contract,   \* table contract, by singleton
  mintTx,     \* table mint_tx, by contract
  key,        \* tables key and designate, by contract: the height
  fundingTx,  \* table funding_tx: a set of rows, key (contract, tx)
  tokenEvent, \* table token_event: how often each transaction's were written
  redeemTx,   \* table redeem_tx, by contract
  cursor      \* table cursor

lokTables == <<block, contract, mintTx, key, fundingTx, tokenEvent, redeemTx>>
dbVars == <<lokTables, cursor>>

Row == [tx : Txs, height : Nat, confirmed : BOOLEAN]
ContractRow == [tx : Txs, height : Nat, hash : Blocks \cup {Root}, confirmed : BOOLEAN]
CursorPoint == [id : Nat, block : Blocks, blockOffset : Nat, txOffset : Nat]

DatabaseTypeOK ==
  /\ block \in [0..MaxHeight -> Blocks \cup {NoRow}]
  /\ contract \in [Loks -> ContractRow \cup {NoRow}]
  /\ mintTx \in [Loks -> Row \cup {NoRow}]
  /\ key \in [Loks -> Nat \cup {NoRow}]
  /\ fundingTx \subseteq Row
  /\ tokenEvent \in [Txs -> Nat]
  /\ redeemTx \in [Loks -> Row \cup {NoRow}]
  /\ cursor \subseteq CursorPoint

DatabaseInit ==
  /\ block = [h \in 0..MaxHeight |-> NoRow]
  /\ contract = [c \in Loks |-> NoRow]
  /\ mintTx = [c \in Loks |-> NoRow]
  /\ key = [c \in Loks |-> NoRow]
  /\ fundingTx = {}
  /\ tokenEvent = [t \in Txs |-> 0]
  /\ redeemTx = [c \in Loks |-> NoRow]
  /\ cursor = {}

NewRow(t, h, c) == [tx |-> t, height |-> h, confirmed |-> c]

-------------------------------------------------------------------------------
(* Queries.                                                                *)

CheckGenesisTxExists(t) ==
  \E c \in Loks : contract[c] # NoRow /\ contract[c].tx = t
CheckMintTxExists(t) == \E c \in Loks : mintTx[c] # NoRow /\ mintTx[c].tx = t
CheckFundingTxExists(t) == \E r \in fundingTx : r.tx = t
CheckRedeemTxExists(t) ==
  \E c \in Loks : redeemTx[c] # NoRow /\ redeemTx[c].tx = t

CheckGenesisTxExistsAndUnconfirmed(t) ==
  \E c \in Loks : contract[c] # NoRow /\ contract[c].tx = t /\ ~contract[c].confirmed
CheckMintTxExistsAndUnconfirmed(t) ==
  \E c \in Loks : mintTx[c] # NoRow /\ mintTx[c].tx = t /\ ~mintTx[c].confirmed
(* The query does not look at the column confirmed.                        *)
CheckFundingTxExistsAndUnconfirmed(t) == \E r \in fundingTx : r.tx = t
CheckRedeemTxExistsAndUnconfirmed(t) ==
  \E c \in Loks : redeemTx[c] # NoRow /\ redeemTx[c].tx = t /\ ~redeemTx[c].confirmed

-------------------------------------------------------------------------------
(* Writes of confirmed transactions, t in block b.                         *)

ensureBlockExists(b) ==
  block' = IF block[HeightOf[b]] = NoRow
           THEN [block EXCEPT ![HeightOf[b]] = b] ELSE block

WriteTokenEvents(t) == tokenEvent' = [tokenEvent EXCEPT ![t] = @ + 1]

CanCreateContract(c) == contract[c] = NoRow
WriteGenesisTx(t, b) ==
  /\ ensureBlockExists(b)
  /\ contract' = [contract EXCEPT ![LokOf[t]] =
       [tx |-> t, height |-> HeightOf[b], hash |-> b, confirmed |-> TRUE]]
  /\ WriteTokenEvents(t)
  /\ UNCHANGED <<mintTx, key, fundingTx, redeemTx>>

(* The contract must be there; its mint and its key must not.              *)
CanMint(c) == contract[c] # NoRow /\ mintTx[c] = NoRow /\ key[c] = NoRow
WriteCreateTokenLokAction(t, b) ==
  /\ mintTx' = [mintTx EXCEPT ![LokOf[t]] = NewRow(t, HeightOf[b], TRUE)]
  /\ key' = [key EXCEPT ![LokOf[t]] = HeightOf[b]]
  /\ UNCHANGED <<block, contract, fundingTx, tokenEvent, redeemTx>>

CanFund(c, t) == contract[c] # NoRow /\ ~CheckFundingTxExists(t)
WriteFundingTx(t, b) ==
  /\ ensureBlockExists(b)
  /\ fundingTx' = fundingTx \cup {NewRow(t, HeightOf[b], TRUE)}
  /\ WriteTokenEvents(t)
  /\ UNCHANGED <<contract, mintTx, key, redeemTx>>

CanRedeem(c) == contract[c] # NoRow /\ redeemTx[c] = NoRow
WriteRedeemTx(t, b) ==
  /\ ensureBlockExists(b)
  /\ redeemTx' = [redeemTx EXCEPT ![LokOf[t]] = NewRow(t, HeightOf[b], TRUE)]
  /\ UNCHANGED <<contract, mintTx, key, fundingTx, tokenEvent>>

-------------------------------------------------------------------------------
(* Writes of mempool transactions: height 0, unconfirmed.                  *)

(* In place of a row that RollbackGenesisByTxID has deleted: the delete    *)
(* reaches no other table.                                                 *)
WriteGenesisTxMempool(t) ==
  /\ contract' = [contract EXCEPT ![LokOf[t]] =
       [tx |-> t, height |-> 0, hash |-> Root, confirmed |-> FALSE]]
  /\ WriteTokenEvents(t)
  /\ UNCHANGED <<block, mintTx, key, fundingTx, redeemTx>>

(* RollbackMintByTxID deletes the mint with its key.                       *)
WriteCreateTokenLokMempool(t) ==
  /\ mintTx' = [mintTx EXCEPT ![LokOf[t]] = NewRow(t, 0, FALSE)]
  /\ key' = [key EXCEPT ![LokOf[t]] = 0]
  /\ UNCHANGED <<block, contract, fundingTx, tokenEvent, redeemTx>>

WriteFundingTxMempool(t) ==
  /\ fundingTx' = fundingTx \cup {NewRow(t, 0, FALSE)}
  /\ WriteTokenEvents(t)
  /\ UNCHANGED <<block, contract, mintTx, key, redeemTx>>

WriteRedeemTxMempool(t) ==
  /\ redeemTx' = [redeemTx EXCEPT ![LokOf[t]] = NewRow(t, 0, FALSE)]
  /\ UNCHANGED <<block, contract, mintTx, key, fundingTx, tokenEvent>>

-------------------------------------------------------------------------------
(* Confirmations of rows written from the mempool.                         *)

ConfirmIn(table, t, h) ==
  [c \in Loks |-> IF table[c] # NoRow /\ table[c].tx = t /\ ~table[c].confirmed
                  THEN NewRow(t, h, TRUE) ELSE table[c]]

UpdateGenesisTxToConfirmed(t, b) ==
  /\ ensureBlockExists(b)
  /\ contract' = [c \in Loks |->
       IF contract[c] # NoRow /\ contract[c].tx = t /\ ~contract[c].confirmed
       THEN [tx |-> t, height |-> HeightOf[b], hash |-> b, confirmed |-> TRUE]
       ELSE contract[c]]
  /\ UNCHANGED <<mintTx, key, fundingTx, tokenEvent, redeemTx>>

UpdateMintLeavesKey(t, b) ==  \* mutant
  /\ ensureBlockExists(b)
  /\ mintTx' = ConfirmIn(mintTx, t, HeightOf[b])
  /\ UNCHANGED <<contract, key, fundingTx, tokenEvent, redeemTx>>
UpdateMintTxToConfirmed(t, b) ==
  /\ ensureBlockExists(b)
  /\ mintTx' = ConfirmIn(mintTx, t, HeightOf[b])
  /\ key' = [c \in Loks |-> IF mintTx[c] # NoRow /\ mintTx[c].tx = t /\ key[c] # NoRow
                            THEN HeightOf[b] ELSE key[c]]
  /\ UNCHANGED <<contract, fundingTx, tokenEvent, redeemTx>>

(* An error unless some row of t is still unconfirmed.                     *)
CanConfirmFunding(t) == \E r \in fundingTx : r.tx = t /\ ~r.confirmed
UpdateFundingWithTokens(t, b) ==  \* mutant: writes the token events again
  /\ ensureBlockExists(b)
  /\ fundingTx' = {IF r.tx = t /\ ~r.confirmed THEN NewRow(t, HeightOf[b], TRUE) ELSE r
                     : r \in fundingTx}
  /\ WriteTokenEvents(t)
  /\ UNCHANGED <<contract, mintTx, key, redeemTx>>
UpdateFundingTxToConfirmed(t, b) ==
  /\ ensureBlockExists(b)
  /\ fundingTx' = {IF r.tx = t /\ ~r.confirmed THEN NewRow(t, HeightOf[b], TRUE) ELSE r
                     : r \in fundingTx}
  /\ UNCHANGED <<contract, mintTx, key, tokenEvent, redeemTx>>

UpdateRedeemTxToConfirmed(t, b) ==
  /\ ensureBlockExists(b)
  /\ redeemTx' = ConfirmIn(redeemTx, t, HeightOf[b])
  /\ UNCHANGED <<contract, mintTx, key, fundingTx, tokenEvent>>

-------------------------------------------------------------------------------
(* The cursor table and the rollback of a fork.                            *)

(* One time in a hundred the points whose id is more than maxCursorEntries *)
(* below the new one are deleted.  Only the order of the ids matters here: *)
(* a number is taken again after a rollback.  The ids of the table may     *)
(* have gaps then, so fewer points than that may stay: any suffix.         *)
NextId == 1 + Max({0} \cup {p.id : p \in cursor})
AddCursorPoint(b, blockOffset, txOffset) ==
  LET added == cursor \cup {[id |-> NextId, block |-> b, blockOffset |-> blockOffset,
                             txOffset |-> txOffset]}
  IN \/ cursor' = added
     \/ \E oldest \in (NextId - MaxCursorEntries)..NextId :
          cursor' = {p \in added : p.id >= oldest}

BelowOrAt(point, h) == HeightOf[point.block] <= h  \* mutant
BelowHeight(point, h) == HeightOf[point.block] < h
RollbackCursor(h) ==
  cursor' = {point \in cursor : BelowHeight(point, h)}

(* DELETE FROM block: no cascade, because no foreign key is enforced.      *)
Rollback(h) ==
  /\ block' = [k \in 0..MaxHeight |-> IF k >= h THEN NoRow ELSE block[k]]
  /\ UNCHANGED <<contract, mintTx, key, fundingTx, tokenEvent, redeemTx>>
==============================================================================
