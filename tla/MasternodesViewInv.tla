------------------------- MODULE MasternodesViewInv -------------------------
(***************************************************************************)
(* The inductive invariants of MasternodesView.                            *)
(*                                                                         *)
(* First, what one operation on the registry does to its consistency, and  *)
(* what a write to the cache does to the maps seen through it, for         *)
(* arbitrary maps.  Then the invariant Inv: it holds initially, and every  *)
(* step of connecting, refusing and rolling back a block keeps it.  Last,  *)
(* what each step does to the nodes, and the two invariants that need it   *)
(* beside Inv: BanInv (every ban names a transaction of the chain) and     *)
(* SpendInv (a spent collateral has waited out its delay).                 *)
(***************************************************************************)
EXTENDS MasternodesView, TLAPS

NodeMaps  == [Ids -> CMasternode \cup {NoEntry}]
IndexMaps == [Keys -> Ids \cup {NullId, NoEntry}]
UndoMaps  == [Heights -> TxsUndo]
Entries   == Ids \cup {NullId}

\* Creation and resignation records are told apart, and from "no entry".
LEMMA RecordFacts ==
    /\ \A j \in Ids : /\ ResignRecord(j).id = j /\ ResignRecord(j).type = "resign"
                         /\ CreateRecord(j).id = j /\ CreateRecord(j).type = "create"
                         /\ ResignRecord(j) # NoEntry /\ CreateRecord(j) # NoEntry
    /\ \A i, j \in Ids : CreateRecord(i) # ResignRecord(j)
BY NullAssumption DEF CreateRecord, ResignRecord, UndoRecords

\* The heights up to that of the block being connected.
LEMMA HeightsBelow ==
    ASSUME NEW n \in Nat
    PROVE  /\ n + 1 \in Nat /\ n + 1 \in 1 .. (n + 1)
           /\ \A i \in 1 .. n : i \in 1 .. (n + 1)
           /\ \A i \in 1 .. (n + 1) : i \in 1 .. n \/ i = n + 1
OBVIOUS

-----------------------------------------------------------------------------
(* The five primitive changes of the registry keep it well formed.         *)

\* A new record is a node: its owner key is not the null key.
LEMMA FromTxFacts ==
    ASSUME NEW id \in Ids, NEW h \in Heights
    PROVE  /\ FromTx(id, h) \in CMasternode
           /\ IsNode(FromTx(id, h))
           /\ FromTx(id, h).ownerAuthAddress = OwnerOf[id]
           /\ FromTx(id, h).operatorAuthAddress = OperatorOf[id]
           /\ FromTx(id, h).creationHeight = h
           /\ FromTx(id, h).resignHeight = NoHeight
<1>1. OwnerOf[id] \in Keys /\ OperatorOf[id] \in Keys /\ h \in Nat
  BY KeysAssumption, BoundAssumption DEF Heights
<1>3. FromTx(id, h) \in CMasternode
  BY <1>1 DEF FromTx, CMasternode, NoHeight
<1>4. FromTx(id, h) # EmptyNode
  BY <1>1, KeysAssumption, Zenon DEF FromTx, EmptyNode
<1>5. FromTx(id, h) # NoEntry
  BY <1>3, NullAssumption, Zenon
<1> QED BY <1>3, <1>4, <1>5, Zenon DEF IsNode, FromTx

\* OnMasternodeCreate keeps the indexes consistent.
LEMMA CreateKeepsIndex ==
    ASSUME NEW nodes \in NodeMaps, NEW byO \in IndexMaps, NEW byP \in IndexMaps,
           NEW id \in Ids, NEW h \in Heights,
           IndexOK(nodes, byO, byP), ~IsNode(nodes[id]),
           byO[OwnerOf[id]] \notin Ids, byP[OperatorOf[id]] \notin Ids
    PROVE  IndexOK([nodes EXCEPT ![id] = FromTx(id, h)],
                   [byO EXCEPT ![OwnerOf[id]] = id], [byP EXCEPT ![OperatorOf[id]] = id])
<1> DEFINE n == FromTx(id, h)
<1>1. /\ IsNode(n) /\ n.ownerAuthAddress = OwnerOf[id] /\ n.operatorAuthAddress = OperatorOf[id]
  BY FromTxFacts, Zenon
<1>2. OwnerOf[id] \in Keys /\ OperatorOf[id] \in Keys
  BY KeysAssumption, Zenon
<1> DEFINE nodes2 == [nodes EXCEPT ![id] = n]
           byO2 == [byO EXCEPT ![OwnerOf[id]] = id]
           byP2 == [byP EXCEPT ![OperatorOf[id]] = id]
<1>3. \A j \in Ids : nodes2[j] = IF j = id THEN n ELSE nodes[j]
  BY Zenon DEF NodeMaps
<1>4. \A k \in Keys : /\ byO2[k] = IF k = OwnerOf[id] THEN id ELSE byO[k]
                      /\ byP2[k] = IF k = OperatorOf[id] THEN id ELSE byP[k]
  BY Zenon DEF IndexMaps
<1>5. \A j \in Ids : OwnerOf[j] \in Keys /\ OperatorOf[j] \in Keys
  BY KeysAssumption, Zenon
<1> HIDE DEF n, nodes2, byO2, byP2
<1>6. IndexOK(nodes2, byO2, byP2)
  BY <1>1, <1>2, <1>3, <1>4, <1>5, SMTT(60) DEF IndexOK
<1> QED BY <1>6, Zenon DEF n, nodes2, byO2, byP2

\* OnMasternodeCreate keeps the undo records in step with the nodes.
LEMMA CreateKeepsUndo ==
    ASSUME NEW nodes \in NodeMaps, NEW undo \in UndoMaps,
           NEW id \in Ids, NEW h \in Heights, NEW t \in Txns,
           UndoOK(nodes, undo), ~IsNode(nodes[id]), undo[h][t] = NoEntry
    PROVE  UndoOK([nodes EXCEPT ![id] = FromTx(id, h)],
                  [undo EXCEPT ![h] = [@ EXCEPT ![t] = CreateRecord(id)]])
<1> DEFINE n == FromTx(id, h)
           r == CreateRecord(id)
           nodes2 == [nodes EXCEPT ![id] = n]
           undo2 == [undo EXCEPT ![h] = [@ EXCEPT ![t] = r]]
<1>1. /\ IsNode(n) /\ n.creationHeight = h /\ n.resignHeight = NoHeight
  BY FromTxFacts, Zenon
<1>2. /\ r # NoEntry /\ r.id = id /\ r.type = "create"
      /\ \A j \in Ids : r # ResignRecord(j)
  BY NullAssumption DEF CreateRecord, ResignRecord, UndoRecords
<1>3. \A i \in Heights, u \in Txns : undo[i][u] # NoEntry => undo[i][u] \in UndoRecords /\ undo[i][u].id # id
  BY DEF UndoOK, UndoMaps, TxsUndo
<1>4. \A i \in Heights, u \in Txns : undo2[i][u] = IF i = h /\ u = t THEN r ELSE undo[i][u]
  BY Zenon DEF UndoMaps, TxsUndo
<1>5. \A j \in Ids : nodes2[j] = IF j = id THEN n ELSE nodes[j]
  BY Zenon DEF NodeMaps
<1>6. \A j \in Ids : ResignRecord(j).id = j /\ CreateRecord(j).id = j
                         /\ ResignRecord(j) # NoEntry /\ CreateRecord(j) # NoEntry
  BY NullAssumption DEF CreateRecord, ResignRecord, UndoRecords
<1> HIDE DEF n, r, nodes2, undo2
<1>7. \A i \in Heights, u \in Txns : undo2[i][u] # NoEntry =>
          /\ IsNode(nodes2[undo2[i][u].id])
          /\ undo2[i][u].type = "create" => nodes2[undo2[i][u].id].creationHeight = i
          /\ undo2[i][u].type = "resign" => nodes2[undo2[i][u].id].resignHeight = i
  BY <1>1, <1>2, <1>3, <1>4, <1>5, SMTT(60) DEF UndoOK, UndoRecords
<1>8. \A j \in Ids : IsNode(nodes2[j]) =>
          /\ nodes2[j].creationHeight \in Heights
          /\ \E u \in Txns : undo2[nodes2[j].creationHeight][u] = CreateRecord(j)
          /\ nodes2[j].resignHeight # NoHeight =>
                /\ nodes2[j].resignHeight \in Heights
                /\ \E u \in Txns : undo2[nodes2[j].resignHeight][u] = ResignRecord(j)
  <2> SUFFICES ASSUME NEW j \in Ids, IsNode(nodes2[j]), j # id
               PROVE  /\ nodes2[j].creationHeight \in Heights
                      /\ \E u \in Txns : undo2[nodes2[j].creationHeight][u] = CreateRecord(j)
                      /\ nodes2[j].resignHeight # NoHeight =>
                            /\ nodes2[j].resignHeight \in Heights
                            /\ \E u \in Txns : undo2[nodes2[j].resignHeight][u] = ResignRecord(j)
    BY <1>1, <1>2, <1>4, <1>5, ZenonT(60) DEF r
  <2> QED BY <1>4, <1>5, <1>6 DEF UndoOK
<1>9. \A i \in Heights, u, w \in Txns : undo2[i][u] # NoEntry /\ undo2[i][u] = undo2[i][w] => u = w
  BY <1>2, <1>3, <1>4 DEF UndoOK
<1>10. \A i \in Heights, u \in Txns : undo2[i][u] # NoEntry /\ undo2[i][u].type = "create" =>
          \A j \in Heights, w \in Txns :
             undo2[j][w] = ResignRecord(undo2[i][u].id) => i < j \/ (i = j /\ u < w)
  BY <1>2, <1>3, <1>4, <1>6 DEF UndoOK, UndoRecords
<1>15. UndoOK(nodes2, undo2)
  BY <1>7, <1>8, <1>9, <1>10, Zenon DEF UndoOK
<1> QED BY <1>15, Zenon DEF nodes2, undo2, n, r

\* A change that keeps a node's keys and heights (ban, unban, a minted block).
LEMMA UpdateKeeps ==
    ASSUME NEW nodes \in NodeMaps, NEW byO \in IndexMaps, NEW byP \in IndexMaps,
           NEW undo \in UndoMaps, NEW id \in Ids, NEW n \in CMasternode,
           IsNode(nodes[id]), IsNode(n),
           n.ownerAuthAddress = nodes[id].ownerAuthAddress,
           n.operatorAuthAddress = nodes[id].operatorAuthAddress,
           n.creationHeight = nodes[id].creationHeight,
           n.resignHeight = nodes[id].resignHeight
    PROVE  /\ IndexOK(nodes, byO, byP) => IndexOK([nodes EXCEPT ![id] = n], byO, byP)
           /\ UndoOK(nodes, undo) => UndoOK([nodes EXCEPT ![id] = n], undo)
<1> DEFINE nodes2 == [nodes EXCEPT ![id] = n]
<1>1. \A j \in Ids : nodes2[j] = IF j = id THEN n ELSE nodes[j]
  BY Zenon DEF NodeMaps
<1>2. \A i \in Heights, u \in Txns : undo[i][u] # NoEntry => undo[i][u].id \in Ids
  BY ZenonT(60) DEF UndoMaps, TxsUndo, UndoRecords
<1> HIDE DEF nodes2
<1>3. IndexOK(nodes, byO, byP) => IndexOK(nodes2, byO, byP)
  BY <1>1, SMTT(60) DEF IndexOK
<1>4. UndoOK(nodes, undo) => UndoOK(nodes2, undo)
  BY <1>1, <1>2, SMTT(60) DEF UndoOK
<1> QED BY <1>3, <1>4, Zenon DEF nodes2

\* OnMasternodeResign, at a position after every record there is.
Resigns(nodes, undo, id, n, h, t) ==
    /\ IsNode(nodes[id]) /\ IsNode(n)
    /\ n.ownerAuthAddress = nodes[id].ownerAuthAddress
    /\ n.operatorAuthAddress = nodes[id].operatorAuthAddress
    /\ n.creationHeight = nodes[id].creationHeight
    /\ nodes[id].resignHeight = NoHeight /\ n.resignHeight = h
    /\ \A i \in Heights, u \in Txns : undo[i][u] # NoEntry => i < h \/ (i = h /\ u < t)

\* OnMasternodeResign keeps indexes and undo records consistent.
LEMMA ResignKeeps ==
    ASSUME NEW nodes \in NodeMaps, NEW byO \in IndexMaps, NEW byP \in IndexMaps,
           NEW undo \in UndoMaps, NEW id \in Ids, NEW n \in CMasternode,
           NEW h \in Heights, NEW t \in Txns,
           IndexOK(nodes, byO, byP), UndoOK(nodes, undo),
           Resigns(nodes, undo, id, n, h, t)
    PROVE  /\ IndexOK([nodes EXCEPT ![id] = n], byO, byP)
           /\ UndoOK([nodes EXCEPT ![id] = n],
                     [undo EXCEPT ![h] = [@ EXCEPT ![t] = ResignRecord(id)]])
<1> USE DEF Resigns
<1> DEFINE r == ResignRecord(id)
           nodes2 == [nodes EXCEPT ![id] = n]
           undo2 == [undo EXCEPT ![h] = [@ EXCEPT ![t] = r]]
<1>1. /\ r # NoEntry /\ r.id = id /\ r.type = "resign"
      /\ \A j \in Ids : r # CreateRecord(j)
  BY NullAssumption DEF CreateRecord, ResignRecord, UndoRecords
<1>2. \A i \in Heights, u \in Txns : undo[i][u] # NoEntry =>
          /\ undo[i][u] \in UndoRecords
          /\ undo[i][u].id = id => undo[i][u].type = "create"
  BY DEF UndoOK, UndoMaps, TxsUndo, Heights, NoHeight, UndoRecords
<1>3. \A i \in Heights, u \in Txns : undo2[i][u] = IF i = h /\ u = t THEN r ELSE undo[i][u]
  BY Zenon DEF UndoMaps, TxsUndo
<1>4. \A j \in Ids : nodes2[j] = IF j = id THEN n ELSE nodes[j]
  BY Zenon DEF NodeMaps
<1>6. undo[h][t] = NoEntry
  BY DEF Heights, Txns
<1> HIDE DEF r, nodes2, undo2
<1>7. IndexOK(nodes2, byO, byP)
  BY <1>4, SMTT(60) DEF IndexOK
<1>8. \A i \in Heights, u \in Txns : undo2[i][u] # NoEntry =>
          /\ IsNode(nodes2[undo2[i][u].id])
          /\ undo2[i][u].type = "create" => nodes2[undo2[i][u].id].creationHeight = i
          /\ undo2[i][u].type = "resign" => nodes2[undo2[i][u].id].resignHeight = i
  BY <1>1, <1>2, <1>3, <1>4, SMTT(60) DEF UndoOK, UndoRecords
<1>9. \A j \in Ids : IsNode(nodes2[j]) =>
          /\ nodes2[j].creationHeight \in Heights
          /\ \E u \in Txns : undo2[nodes2[j].creationHeight][u] = CreateRecord(j)
          /\ nodes2[j].resignHeight # NoHeight =>
                /\ nodes2[j].resignHeight \in Heights
                /\ \E u \in Txns : undo2[nodes2[j].resignHeight][u] = ResignRecord(j)
  <2> SUFFICES ASSUME NEW j \in Ids, IsNode(nodes2[j])
               PROVE  /\ nodes2[j].creationHeight \in Heights
                      /\ \E u \in Txns : undo2[nodes2[j].creationHeight][u] = CreateRecord(j)
                      /\ nodes2[j].resignHeight # NoHeight =>
                            /\ nodes2[j].resignHeight \in Heights
                            /\ \E u \in Txns : undo2[nodes2[j].resignHeight][u] = ResignRecord(j)
    BY Zenon
  <2>1. CASE j = id
    <3>1. PICK u \in Txns : undo[nodes[id].creationHeight][u] = CreateRecord(id)
      BY Zenon DEF UndoOK
    <3>2. nodes[id].creationHeight \in Heights
      BY Zenon DEF UndoOK
    <3>3. undo2[nodes[id].creationHeight][u] = CreateRecord(id)
      BY <1>3, RecordFacts, <1>6, <3>1, <3>2
    <3>4. undo2[h][t] = ResignRecord(id)
      BY <1>3, Zenon DEF r
    <3> QED BY <1>4, <2>1, <3>2, <3>3, <3>4, Zenon
  <2>2. CASE j # id
    BY <1>3, <1>4, RecordFacts, <1>6, <2>2, SMTT(60) DEF UndoOK
  <2> QED BY <2>1, <2>2, Zenon
<1>10. \A i \in Heights, u, w \in Txns : undo2[i][u] # NoEntry /\ undo2[i][u] = undo2[i][w] => u = w
  BY <1>1, <1>2, <1>3, SMTT(60) DEF UndoOK
<1>11. \A i \in Heights, u \in Txns : undo2[i][u] # NoEntry /\ undo2[i][u].type = "create" =>
          \A j \in Heights, w \in Txns :
             undo2[j][w] = ResignRecord(undo2[i][u].id) => i < j \/ (i = j /\ u < w)
  BY <1>1, <1>2, <1>3, RecordFacts, SMTT(60) DEF UndoOK, UndoRecords
<1>15. UndoOK(nodes2, undo2)
  BY <1>8, <1>9, <1>10, <1>11, Zenon DEF UndoOK
<1> QED BY <1>7, <1>15, Zenon DEF nodes2, undo2, r

\* OnUndoBlock on the creation record at the last position.
LEMMA UndoCreateKeeps ==
    ASSUME NEW nodes \in NodeMaps, NEW byO \in IndexMaps, NEW byP \in IndexMaps,
           NEW undo \in UndoMaps, NEW id \in Ids, NEW h \in Heights, NEW t \in Txns,
           IndexOK(nodes, byO, byP), UndoOK(nodes, undo),
           undo[h][t] = CreateRecord(id),
           \A i \in Heights, u \in Txns : undo[i][u] # NoEntry => i < h \/ (i = h /\ u <= t)
    PROVE  /\ IndexOK([nodes EXCEPT ![id] = EmptyNode],
                      [byO EXCEPT ![OwnerOf[id]] = NullId],
                      [byP EXCEPT ![OperatorOf[id]] = NullId])
           /\ UndoOK([nodes EXCEPT ![id] = EmptyNode],
                     [undo EXCEPT ![h] = [@ EXCEPT ![t] = NoEntry]])
<1> DEFINE nodes2 == [nodes EXCEPT ![id] = EmptyNode]
           byO2 == [byO EXCEPT ![OwnerOf[id]] = NullId]
           byP2 == [byP EXCEPT ![OperatorOf[id]] = NullId]
           undo2 == [undo EXCEPT ![h] = [@ EXCEPT ![t] = NoEntry]]
<1>2. \A i \in Heights, u \in Txns : undo[i][u] # NoEntry =>
          /\ undo[i][u].id \in Ids
          /\ \/ undo[i][u] = CreateRecord(undo[i][u].id)
             \/ undo[i][u] = ResignRecord(undo[i][u].id)
  BY Zenon DEF UndoMaps, TxsUndo, UndoRecords, CreateRecord, ResignRecord
<1>3. \A i \in Heights, u \in Txns : undo2[i][u] = IF i = h /\ u = t THEN NoEntry ELSE undo[i][u]
  BY Zenon DEF UndoMaps, TxsUndo
<1>4. \A j \in Ids : nodes2[j] = IF j = id THEN EmptyNode ELSE nodes[j]
  BY Zenon DEF NodeMaps
<1>5. \A j \in Ids : OwnerOf[j] \in Keys /\ OperatorOf[j] \in Keys
  BY KeysAssumption, Zenon
<1>6. \A k \in Keys : /\ byO2[k] = IF k = OwnerOf[id] THEN NullId ELSE byO[k]
                      /\ byP2[k] = IF k = OperatorOf[id] THEN NullId ELSE byP[k]
  BY Zenon DEF IndexMaps
<1>7. IsNode(nodes[id]) /\ nodes[id].creationHeight = h
  BY RecordFacts DEF UndoOK
<1>8. ~IsNode(EmptyNode)
  BY Zenon DEF IsNode
<1>9. \A i \in Heights, u \in Txns : undo[i][u] # NoEntry /\ undo[i][u].id = id => i = h /\ u = t
  <2> SUFFICES ASSUME NEW i \in Heights, NEW u \in Txns, undo[i][u] # NoEntry, undo[i][u].id = id
               PROVE  i = h /\ u = t
    BY Zenon
  <2>1. CASE undo[i][u] = CreateRecord(id)
    <3>1. i = h
      BY RecordFacts, <1>7, <2>1 DEF UndoOK
    <3> QED BY RecordFacts, <2>1, <3>1, SMTT(60) DEF UndoOK
  <2>2. CASE undo[i][u] = ResignRecord(id)
    <3>1. h < i \/ (h = i /\ t < u)
      BY RecordFacts, <2>2 DEF UndoOK
    <3> QED BY <3>1, BoundAssumption, SMTT(60) DEF Heights, Txns
  <2> QED BY <1>2, <2>1, <2>2, Zenon
<1> HIDE DEF nodes2, byO2, byP2, undo2
<1>10. IndexOK(nodes2, byO2, byP2)
  BY <1>4, <1>5, <1>6, <1>7, <1>8, NullAssumption, SMTT(60) DEF IndexOK
<1>11. \A i \in Heights, u \in Txns : undo2[i][u] # NoEntry =>
          /\ IsNode(nodes2[undo2[i][u].id])
          /\ undo2[i][u].type = "create" => nodes2[undo2[i][u].id].creationHeight = i
          /\ undo2[i][u].type = "resign" => nodes2[undo2[i][u].id].resignHeight = i
  BY <1>2, <1>3, <1>4, <1>9, SMTT(60) DEF UndoOK
<1>12. \A j \in Ids : IsNode(nodes2[j]) =>
          /\ nodes2[j].creationHeight \in Heights
          /\ \E u \in Txns : undo2[nodes2[j].creationHeight][u] = CreateRecord(j)
          /\ nodes2[j].resignHeight # NoHeight =>
                /\ nodes2[j].resignHeight \in Heights
                /\ \E u \in Txns : undo2[nodes2[j].resignHeight][u] = ResignRecord(j)
  <2> SUFFICES ASSUME NEW j \in Ids, IsNode(nodes2[j])
               PROVE  /\ nodes2[j].creationHeight \in Heights
                      /\ \E u \in Txns : undo2[nodes2[j].creationHeight][u] = CreateRecord(j)
                      /\ nodes2[j].resignHeight # NoHeight =>
                            /\ nodes2[j].resignHeight \in Heights
                            /\ \E u \in Txns : undo2[nodes2[j].resignHeight][u] = ResignRecord(j)
    BY Zenon
  <2>1. j # id /\ IsNode(nodes[j]) /\ nodes2[j] = nodes[j]
    BY <1>4, <1>8, Zenon
  <2>2. \A i \in Heights, u \in Txns : undo[i][u] \in {CreateRecord(j), ResignRecord(j)} => undo2[i][u] = undo[i][u]
    BY RecordFacts, <1>3, <2>1, SMTT(60)
  <2> QED BY <2>1, <2>2 DEF UndoOK
<1>13. \A i \in Heights, u, w \in Txns : undo2[i][u] # NoEntry /\ undo2[i][u] = undo2[i][w] => u = w
  BY <1>3, SMTT(60) DEF UndoOK
<1>14. \A i \in Heights, u \in Txns : undo2[i][u] # NoEntry /\ undo2[i][u].type = "create" =>
          \A j \in Heights, w \in Txns :
             undo2[j][w] = ResignRecord(undo2[i][u].id) => i < j \/ (i = j /\ u < w)
  BY RecordFacts, <1>2, <1>3, SMTT(60) DEF UndoOK
<1>15. UndoOK(nodes2, undo2)
  BY <1>11, <1>12, <1>13, <1>14, Zenon DEF UndoOK
<1> QED BY <1>10, <1>15, Zenon DEF nodes2, undo2, byO2, byP2

\* OnUndoBlock on a resignation record.
LEMMA UndoResignKeeps ==
    ASSUME NEW nodes \in NodeMaps, NEW byO \in IndexMaps, NEW byP \in IndexMaps,
           NEW undo \in UndoMaps, NEW id \in Ids, NEW n \in CMasternode,
           NEW h \in Heights, NEW t \in Txns,
           IndexOK(nodes, byO, byP), UndoOK(nodes, undo), IsNode(n),
           undo[h][t] = ResignRecord(id),
           n.ownerAuthAddress = nodes[id].ownerAuthAddress,
           n.operatorAuthAddress = nodes[id].operatorAuthAddress,
           n.creationHeight = nodes[id].creationHeight,
           n.resignHeight = NoHeight
    PROVE  /\ IndexOK([nodes EXCEPT ![id] = n], byO, byP)
           /\ UndoOK([nodes EXCEPT ![id] = n],
                     [undo EXCEPT ![h] = [@ EXCEPT ![t] = NoEntry]])
<1> DEFINE nodes2 == [nodes EXCEPT ![id] = n]
           undo2 == [undo EXCEPT ![h] = [@ EXCEPT ![t] = NoEntry]]
<1>2. \A i \in Heights, u \in Txns : undo[i][u] # NoEntry =>
          /\ undo[i][u].id \in Ids
          /\ \/ undo[i][u] = CreateRecord(undo[i][u].id)
             \/ undo[i][u] = ResignRecord(undo[i][u].id)
  BY ZenonT(60) DEF UndoMaps, TxsUndo, UndoRecords, CreateRecord, ResignRecord
<1>3. \A i \in Heights, u \in Txns : undo2[i][u] = IF i = h /\ u = t THEN NoEntry ELSE undo[i][u]
  BY Zenon DEF UndoMaps, TxsUndo
<1>4. \A j \in Ids : nodes2[j] = IF j = id THEN n ELSE nodes[j]
  BY Zenon DEF NodeMaps
<1>5. IsNode(nodes[id]) /\ nodes[id].resignHeight = h
  BY RecordFacts, SMTT(60) DEF UndoOK
<1>6. \A i \in Heights, u \in Txns : undo[i][u] = ResignRecord(id) => i = h /\ u = t
  <2> SUFFICES ASSUME NEW i \in Heights, NEW u \in Txns, undo[i][u] = ResignRecord(id)
               PROVE  i = h /\ u = t
    BY Zenon
  <2>1. i = h
    BY RecordFacts, <1>5, SMTT(60) DEF UndoOK
  <2> QED BY RecordFacts, <2>1, SMTT(60) DEF UndoOK
<1> HIDE DEF nodes2, undo2
<1>7. IndexOK(nodes2, byO, byP)
  BY <1>4, <1>5, SMTT(60) DEF IndexOK
<1>8. \A i \in Heights, u \in Txns : undo2[i][u] # NoEntry =>
          /\ IsNode(nodes2[undo2[i][u].id])
          /\ undo2[i][u].type = "create" => nodes2[undo2[i][u].id].creationHeight = i
          /\ undo2[i][u].type = "resign" => nodes2[undo2[i][u].id].resignHeight = i
  BY RecordFacts, <1>2, <1>3, <1>4, <1>6, SMTT(60) DEF UndoOK
<1>9. \A j \in Ids : IsNode(nodes2[j]) =>
          /\ nodes2[j].creationHeight \in Heights
          /\ \E u \in Txns : undo2[nodes2[j].creationHeight][u] = CreateRecord(j)
          /\ nodes2[j].resignHeight # NoHeight =>
                /\ nodes2[j].resignHeight \in Heights
                /\ \E u \in Txns : undo2[nodes2[j].resignHeight][u] = ResignRecord(j)
  <2> SUFFICES ASSUME NEW j \in Ids, IsNode(nodes2[j])
               PROVE  /\ nodes2[j].creationHeight \in Heights
                      /\ \E u \in Txns : undo2[nodes2[j].creationHeight][u] = CreateRecord(j)
                      /\ nodes2[j].resignHeight # NoHeight =>
                            /\ nodes2[j].resignHeight \in Heights
                            /\ \E u \in Txns : undo2[nodes2[j].resignHeight][u] = ResignRecord(j)
    BY Zenon
  <2>1. /\ IsNode(nodes[j]) /\ nodes2[j].creationHeight = nodes[j].creationHeight
        /\ j # id => nodes2[j].resignHeight = nodes[j].resignHeight
        /\ j = id => nodes2[j].resignHeight = NoHeight
    BY <1>4, <1>5, Zenon
  <2>2. \A i \in Heights, u \in Txns :
          undo[i][u] = CreateRecord(j) \/ (j # id /\ undo[i][u] = ResignRecord(j)) => undo2[i][u] = undo[i][u]
    BY RecordFacts, <1>3, SMTT(60)
  <2> QED BY <2>1, <2>2, SMTT(60) DEF UndoOK
<1>10. \A i \in Heights, u, w \in Txns : undo2[i][u] # NoEntry /\ undo2[i][u] = undo2[i][w] => u = w
  BY <1>3, SMTT(60) DEF UndoOK
<1>11. \A i \in Heights, u \in Txns : undo2[i][u] # NoEntry /\ undo2[i][u].type = "create" =>
          \A j \in Heights, w \in Txns :
             undo2[j][w] = ResignRecord(undo2[i][u].id) => i < j \/ (i = j /\ u < w)
  BY RecordFacts, <1>2, <1>3 DEF UndoOK
<1>15. UndoOK(nodes2, undo2)
  BY <1>8, <1>9, <1>10, <1>11, Zenon DEF UndoOK
<1> QED BY <1>7, <1>15, Zenon DEF nodes2, undo2

-----------------------------------------------------------------------------
(* Looking up through a cache.                                             *)

\* Through an empty cache one sees the base.
LEMMA OverlayEmpty ==
    ASSUME NEW S, NEW V, NEW below \in [S -> V]
    PROVE  Overlay(below, [k \in S |-> NoEntry]) = below
BY Zenon DEF Overlay

\* Reading one map through another gives values of the same set.
LEMMA OverlayType ==
    ASSUME NEW S, NEW V, NEW below \in [S -> V], NEW above \in [S -> V]
    PROVE  Overlay(below, above) \in [S -> V]
BY Zenon DEF Overlay

\* A block without masternode transactions has a well-formed undo entry.
LEMMA EmptyUndoType == EmptyUndo \in TxsUndo
BY Zenon DEF EmptyUndo, TxsUndo

\* The flush of a cache gives a view.
LEMMA ApplyCacheType ==
    ASSUME NEW v \in Views, NEW c \in Views
    PROVE  ApplyCache(v, c) \in Views
<1>1. /\ Overlay(v.allNodes, c.allNodes) \in [Ids -> CMasternode \cup {NoEntry}]
      /\ Overlay(v.nodesByOwner, c.nodesByOwner) \in [Keys -> Ids \cup {NullId, NoEntry}]
      /\ Overlay(v.nodesByOperator, c.nodesByOperator) \in [Keys -> Ids \cup {NullId, NoEntry}]
      /\ Overlay(v.blocksUndo, c.blocksUndo) \in [Heights -> TxsUndo \cup {NoEntry}]
  BY OverlayType, ZenonT(60) DEF Views
<1> QED BY <1>1, Zenon DEF ApplyCache, Views

\* Flushing an empty cache changes nothing but the height.
LEMMA ApplyEmptyCache ==
    ASSUME NEW v \in Views
    PROVE  ApplyCache(v, EmptyCache(v.lastHeight)) = v
<1>1. /\ Overlay(v.allNodes, [i \in Ids |-> NoEntry]) = v.allNodes
      /\ Overlay(v.nodesByOwner, [k \in Keys |-> NoEntry]) = v.nodesByOwner
      /\ Overlay(v.nodesByOperator, [k \in Keys |-> NoEntry]) = v.nodesByOperator
      /\ Overlay(v.blocksUndo, [h \in Heights |-> NoEntry]) = v.blocksUndo
  BY OverlayEmpty, ZenonT(60) DEF Views
<1> QED BY <1>1, Zenon DEF ApplyCache, EmptyCache, Views

\* A fresh CMasternodesViewCache is a view.
LEMMA EmptyCacheType ==
    ASSUME NEW h \in Nat
    PROVE  EmptyCache(h) \in Views
BY Zenon DEF EmptyCache, Views

\* The types of what the lookups through the cache return.
LEMMA ViewTypes ==
    ASSUME TypeOK
    PROVE  /\ View \in Views
           /\ View.allNodes \in NodeMaps
           /\ View.nodesByOwner \in IndexMaps /\ View.nodesByOperator \in IndexMaps
           /\ PendingUndo \in UndoMaps
<1>1. View \in Views
  BY ApplyCacheType, Zenon DEF TypeOK, View
<1>2. \A h \in Heights : GetBlockUndo(View, h) \in TxsUndo
  BY <1>1, EmptyUndoType, Zenon DEF Views, GetBlockUndo
<1>3. PendingUndo \in UndoMaps
  BY <1>2, Zenon DEF PendingUndo, UndoMaps, TxsUndo
<1> QED BY <1>1, <1>3, Zenon DEF Views, NodeMaps, IndexMaps

\* The same after a step, where a lemma about the current state does not apply.
LEMMA PendingUndoType ==
    ASSUME TypeOK'
    PROVE  PendingUndo' \in UndoMaps
<1>1. View' \in Views
  BY ApplyCacheType, Zenon DEF TypeOK, View
<1>2. \A h \in Heights : GetBlockUndo(View', h) \in TxsUndo
  BY <1>1, EmptyUndoType, Zenon DEF Views, GetBlockUndo
<1> QED BY <1>2, Zenon DEF PendingUndo, UndoMaps, TxsUndo

\* Ban, unban, undone resignation, minted block: one node is written to the cache.
LEMMA NodeWritten ==
    ASSUME NEW v \in Views, NEW c \in Views, NEW id \in Ids, NEW n \in CMasternode
    PROVE  LET c2 == SetNode(c, id, n)
               w  == ApplyCache(v, c)
               w2 == ApplyCache(v, c2)
           IN  /\ c2 \in Views
               /\ w2.allNodes = [w.allNodes EXCEPT ![id] = n]
               /\ w2.nodesByOwner = w.nodesByOwner /\ w2.nodesByOperator = w.nodesByOperator
               /\ w2.blocksUndo = w.blocksUndo /\ c2.lastHeight = c.lastHeight
               /\ c2.blocksUndo = c.blocksUndo
<1>1. n # NoEntry
  BY NullAssumption, Zenon
<1>2. Overlay(v.allNodes, [c.allNodes EXCEPT ![id] = n]) = [Overlay(v.allNodes, c.allNodes) EXCEPT ![id] = n]
  <2>1. v.allNodes \in [Ids -> CMasternode \cup {NoEntry}] /\ c.allNodes \in [Ids -> CMasternode \cup {NoEntry}]
    BY Zenon DEF Views
  <2> QED BY <1>1, <2>1, ZenonT(60) DEF Overlay
<1> QED BY <1>2, Zenon DEF ApplyCache, Views, SetNode

\* A creation or an undone creation writes the two index entries.
LEMMA IndexWritten ==
    ASSUME NEW v \in Views, NEW c \in Views,
           NEW k \in Keys, NEW l \in Keys, NEW x \in Entries
    PROVE  LET c2 == SetIndex(c, k, l, x)
               w  == ApplyCache(v, c)
               w2 == ApplyCache(v, c2)
           IN  /\ c2 \in Views
               /\ w2.allNodes = w.allNodes
               /\ w2.nodesByOwner = [w.nodesByOwner EXCEPT ![k] = x]
               /\ w2.nodesByOperator = [w.nodesByOperator EXCEPT ![l] = x]
               /\ w2.blocksUndo = w.blocksUndo /\ c2.lastHeight = c.lastHeight
               /\ c2.blocksUndo = c.blocksUndo
<1> DEFINE c2 == SetIndex(c, k, l, x)
<1>1. x # NoEntry
  BY NullAssumption, Zenon DEF Entries
<1>2. /\ c2.allNodes = c.allNodes
      /\ c2.nodesByOwner = [c.nodesByOwner EXCEPT ![k] = x]
      /\ c2.nodesByOperator = [c.nodesByOperator EXCEPT ![l] = x]
      /\ c2.blocksUndo = c.blocksUndo /\ c2.lastHeight = c.lastHeight
      /\ c2 \in Views
  BY ZenonT(60) DEF Views, SetIndex, Entries
<1> HIDE DEF c2
<1>3. /\ v.nodesByOwner \in IndexMaps /\ c.nodesByOwner \in IndexMaps
      /\ v.nodesByOperator \in IndexMaps /\ c.nodesByOperator \in IndexMaps
  BY Zenon DEF Views, IndexMaps
<1>4. Overlay(v.nodesByOwner, [c.nodesByOwner EXCEPT ![k] = x])
        = [Overlay(v.nodesByOwner, c.nodesByOwner) EXCEPT ![k] = x]
  BY <1>1, <1>3, ZenonT(60) DEF Overlay, IndexMaps
<1>5. Overlay(v.nodesByOperator, [c.nodesByOperator EXCEPT ![l] = x])
         = [Overlay(v.nodesByOperator, c.nodesByOperator) EXCEPT ![l] = x]
  BY <1>1, <1>3, ZenonT(60) DEF Overlay, IndexMaps
<1> QED BY <1>2, <1>4, <1>5, Zenon DEF ApplyCache, c2

\* Cache c2 over v shows what c shows, but node n for id, and x under the keys k and l.
Written(v, c, c2, id, n, k, l, x) ==
    LET w  == ApplyCache(v, c)
        w2 == ApplyCache(v, c2)
    IN  /\ c2 \in Views /\ c2.lastHeight = c.lastHeight
        /\ w2.allNodes = [w.allNodes EXCEPT ![id] = n]
        /\ w2.nodesByOwner = [w.nodesByOwner EXCEPT ![k] = x]
        /\ w2.nodesByOperator = [w.nodesByOperator EXCEPT ![l] = x]
        /\ w2.blocksUndo = w.blocksUndo

\* Both together.
LEMMA NodeAndIndexWritten ==
    ASSUME NEW v \in Views, NEW c \in Views, NEW id \in Ids, NEW n \in CMasternode,
           NEW k \in Keys, NEW l \in Keys, NEW x \in Entries
    PROVE  Written(v, c, SetIndex(SetNode(c, id, n), k, l, x), id, n, k, l, x)
<1> DEFINE c1 == SetNode(c, id, n)
           c2 == SetIndex(c1, k, l, x)
           w  == ApplyCache(v, c)
           w1 == ApplyCache(v, c1)
           w2 == ApplyCache(v, c2)
<1>1. /\ c1 \in Views /\ c1.lastHeight = c.lastHeight
      /\ w1.allNodes = [w.allNodes EXCEPT ![id] = n]
      /\ w1.nodesByOwner = w.nodesByOwner /\ w1.nodesByOperator = w.nodesByOperator
      /\ w1.blocksUndo = w.blocksUndo
  BY NodeWritten, SMTT(60)
<1> HIDE DEF c1
<1>2. /\ c2 \in Views /\ c2.lastHeight = c1.lastHeight
      /\ w2.allNodes = w1.allNodes
      /\ w2.nodesByOwner = [w1.nodesByOwner EXCEPT ![k] = x]
      /\ w2.nodesByOperator = [w1.nodesByOperator EXCEPT ![l] = x]
      /\ w2.blocksUndo = w1.blocksUndo
  BY <1>1, IndexWritten, SMTT(60)
<1> QED BY <1>1, <1>2, Zenon DEF c1, Written

\* An undo record is added to the cache, the base having none for that block.
LEMMA UndoWritten ==
    ASSUME NEW v \in Views, NEW c \in Views, NEW h \in Heights, NEW t \in Txns,
           NEW r \in UndoRecords, \A u \in Txns : GetBlockUndo(v, h)[u] = NoEntry
    PROVE  LET c2 == AddUndo(c, h, t, r)
               w  == ApplyCache(v, c)
               w2 == ApplyCache(v, c2)
           IN  /\ c2 \in Views /\ c2.lastHeight = c.lastHeight
               /\ w2.allNodes = w.allNodes
               /\ w2.nodesByOwner = w.nodesByOwner /\ w2.nodesByOperator = w.nodesByOperator
               /\ \A i \in Heights, u \in Txns :
                    GetBlockUndo(w2, i)[u] = IF i = h /\ u = t THEN r ELSE GetBlockUndo(w, i)[u]
<1> DEFINE own == IF c.blocksUndo[h] = NoEntry THEN EmptyUndo ELSE c.blocksUndo[h]
           new == [own EXCEPT ![t] = r]
           c2 == AddUndo(c, h, t, r)
           w  == ApplyCache(v, c)
           w2 == ApplyCache(v, c2)
<1>1. own \in TxsUndo
  BY EmptyUndoType, Zenon DEF Views
<1>2. new \in TxsUndo /\ \A u \in Txns : new[u] = IF u = t THEN r ELSE own[u]
  BY <1>1, Zenon DEF TxsUndo
<1>3. new # NoEntry
  BY <1>2, NullAssumption, Zenon
<1> HIDE DEF new
<1>4. c2 = [c EXCEPT !.blocksUndo[h] = new]
  BY Zenon DEF AddUndo, new
<1>5. /\ c2 \in Views /\ c2.lastHeight = c.lastHeight /\ c2.allNodes = c.allNodes
      /\ c2.nodesByOwner = c.nodesByOwner /\ c2.nodesByOperator = c.nodesByOperator
      /\ c2.blocksUndo = [c.blocksUndo EXCEPT ![h] = new]
  BY <1>2, <1>4, SMTT(60) DEF Views
<1> HIDE DEF c2
<1>6. w2.blocksUndo = [w.blocksUndo EXCEPT ![h] = new]
  <2>1. v.blocksUndo \in [Heights -> TxsUndo \cup {NoEntry}] /\ c.blocksUndo \in [Heights -> TxsUndo \cup {NoEntry}]
    BY Zenon DEF Views
  <2>2. Overlay(v.blocksUndo, [c.blocksUndo EXCEPT ![h] = new])
          = [Overlay(v.blocksUndo, c.blocksUndo) EXCEPT ![h] = new]
    BY <1>3, <2>1, ZenonT(60) DEF Overlay
  <2> QED BY <1>5, <2>2, Zenon DEF ApplyCache
<1>7. \A u \in Txns : GetBlockUndo(w, h)[u] = own[u]
  BY Zenon DEF ApplyCache, GetBlockUndo, Overlay, Views, EmptyUndo
<1>8. \A i \in Heights : GetBlockUndo(w2, i) = IF i = h THEN new ELSE GetBlockUndo(w, i)
  BY <1>3, <1>6, Zenon DEF GetBlockUndo, ApplyCache, Overlay, Views
<1>9. \A i \in Heights, u \in Txns :
        GetBlockUndo(w2, i)[u] = IF i = h /\ u = t THEN r ELSE GetBlockUndo(w, i)[u]
  BY <1>2, <1>7, <1>8, Zenon
<1>10. /\ w2.allNodes = w.allNodes
       /\ w2.nodesByOwner = w.nodesByOwner /\ w2.nodesByOperator = w.nodesByOperator
  BY <1>5, Zenon DEF ApplyCache
<1> HIDE DEF w, w2
<1>11. /\ c2 \in Views /\ c2.lastHeight = c.lastHeight
       /\ w2.allNodes = w.allNodes
       /\ w2.nodesByOwner = w.nodesByOwner /\ w2.nodesByOperator = w.nodesByOperator
       /\ \A i \in Heights, u \in Txns :
            GetBlockUndo(w2, i)[u] = IF i = h /\ u = t THEN r ELSE GetBlockUndo(w, i)[u]
  BY <1>5, <1>9, <1>10, Zenon
<1> QED BY <1>11, Zenon DEF c2, w, w2

-----------------------------------------------------------------------------
(* The inductive invariant.                                                *)

\* Where the validation thread is, and which block it works on.
PhaseOK ==
    /\ base.lastHeight = Len(chain) /\ mnview.lastHeight = Len(chain)
    /\ pc = "idle" => mnview = EmptyCache(Len(chain))
    /\ pc = "connect" => Len(chain) < MaxHeight
    /\ pc \in {"disconnect", "undo"} => chain # <<>> /\ block = chain[Len(chain)]
    /\ pc = "disconnect" => cursor <= Len(block.txs)
    /\ \A j \in 1 .. Len(chain) : Len(chain[j].txs) <= MaxTxs

\* What is under the cache is a registry of its own: a dropped cache leaves it.
BaseUndo == [h \in Heights |-> GetBlockUndo(base, h)]
BaseOK ==
    /\ IndexOK(base.allNodes, base.nodesByOwner, base.nodesByOperator)
    /\ UndoOK(base.allNodes, BaseUndo)
    /\ \A h \in Heights, t \in Txns : h > Len(chain) => BaseUndo[h][t] = NoEntry
    /\ \A j \in 1 .. Len(chain) : Registered(base, chain[j].minter, j)

\* The same for what is seen through the cache, with the records still pending.
ViewOK ==
    /\ IndexConsistent /\ UndoRecordsApply /\ MintersRegistered
    /\ \A h \in Heights, t \in Txns : PendingUndo[h][t] # NoEntry =>
          h <= Len(chain) \/ (pc = "connect" /\ h = nHeight /\ t < txn)

Inv == TypeOK /\ PhaseOK /\ BaseOK /\ ViewOK

-----------------------------------------------------------------------------
(* Between blocks the cache is empty, and BaseOK is all there is to prove. *)
\* The undo records of the base are undo records.
LEMMA BaseUndoType ==
    ASSUME TypeOK
    PROVE  BaseUndo \in UndoMaps
BY EmptyUndoType, Zenon DEF TypeOK, BaseUndo, UndoMaps, Views, GetBlockUndo

\* Through the empty cache one sees the base.
LEMMA IdleView ==
    ASSUME TypeOK, PhaseOK, pc = "idle"
    PROVE  View = base /\ PendingUndo = BaseUndo
<1>1. View = base
  BY ApplyEmptyCache, Zenon DEF TypeOK, PhaseOK, View
<1>2. BaseUndo \in UndoMaps
  BY BaseUndoType, Zenon
<1> QED BY <1>1, <1>2, Zenon DEF PendingUndo, BaseUndo, UndoMaps, TxsUndo

\* Between two blocks, the invariant of the base is the invariant of the view.
LEMMA IdleStep ==
    ASSUME TypeOK', PhaseOK', pc' = "idle", BaseOK'
    PROVE  Inv'
<1>1. View' = base'
  BY ApplyEmptyCache, Zenon DEF TypeOK, PhaseOK, View
<1>2. \A h \in Heights : GetBlockUndo(base', h) \in TxsUndo
  BY EmptyUndoType, Zenon DEF TypeOK, Views, GetBlockUndo
<1>3. PendingUndo' = BaseUndo'
  BY <1>1, <1>2, Zenon DEF PendingUndo, BaseUndo, TxsUndo
<1>4. ViewOK'
  BY <1>1, <1>3, BoundAssumption
     DEF BaseOK, ViewOK, IndexConsistent, UndoRecordsApply, MintersRegistered, Heights, TypeOK
<1> QED BY <1>4, Zenon DEF Inv

\* The registry of the genesis block.
LEMMA GenesisFacts ==
    LET v == GenesisView IN
    /\ v \in Views
    /\ IndexOK(v.allNodes, v.nodesByOwner, v.nodesByOperator)
    /\ UndoOK(v.allNodes, [h \in Heights |-> GetBlockUndo(v, h)])
    /\ \A h \in Heights, t \in Txns : h > 0 => GetBlockUndo(v, h)[t] = NoEntry
<1> DEFINE v == GenesisView
           owner(k) == CHOOSE i \in GenesisIds : OwnerOf[i] = k
           oper(k) == CHOOSE i \in GenesisIds : OperatorOf[i] = k
           at(t) == CHOOSE i \in GenesisIds : GenesisTxn[i] = t
           undo == [h \in Heights |-> GetBlockUndo(v, h)]
<1>1. GenesisIds \subseteq Ids /\ 0 \in Heights
  BY GenesisAssumption, BoundAssumption DEF Heights
<1>2. \A i \in GenesisIds : /\ OwnerOf[i] \in Keys /\ OperatorOf[i] \in Keys /\ GenesisTxn[i] \in Txns
                            /\ owner(OwnerOf[i]) = i /\ oper(OperatorOf[i]) = i /\ at(GenesisTxn[i]) = i
  BY <1>1, KeysAssumption, GenesisAssumption, Zenon
<1>3. \A k : (\E i \in GenesisIds : OwnerOf[i] = k) => owner(k) \in GenesisIds /\ OwnerOf[owner(k)] = k
  BY Zenon
<1>4. \A k : (\E i \in GenesisIds : OperatorOf[i] = k) => oper(k) \in GenesisIds /\ OperatorOf[oper(k)] = k
  BY Zenon
<1>5. \A t : (\E i \in GenesisIds : GenesisTxn[i] = t) => at(t) \in GenesisIds /\ GenesisTxn[at(t)] = t
  BY Zenon
<1>6. \A i \in Ids : /\ v.allNodes[i] = IF i \in GenesisIds THEN FromTx(i, 0) ELSE NoEntry
                     /\ IsNode(v.allNodes[i]) <=> i \in GenesisIds
  BY <1>1, FromTxFacts, Zenon DEF GenesisView, IsNode
<1>7. \A k \in Keys : /\ v.nodesByOwner[k] = IF \E i \in GenesisIds : OwnerOf[i] = k THEN owner(k) ELSE NoEntry
                      /\ v.nodesByOperator[k] = IF \E i \in GenesisIds : OperatorOf[i] = k THEN oper(k) ELSE NoEntry
  BY Zenon DEF GenesisView
<1>8. \A h \in Heights, t \in Txns :
         undo[h][t] = IF h = 0 /\ \E i \in GenesisIds : GenesisTxn[i] = t THEN CreateRecord(at(t)) ELSE NoEntry
  <2> DEFINE u0 == [t \in Txns |-> IF \E i \in GenesisIds : GenesisTxn[i] = t THEN CreateRecord(at(t)) ELSE NoEntry]
  <2>1. u0 \in TxsUndo
    BY <1>1, <1>5, Zenon DEF TxsUndo, UndoRecords, CreateRecord
  <2>2. u0 # NoEntry
    BY <2>1, NullAssumption, Zenon
  <2>3. \A h \in Heights : v.blocksUndo[h] = IF h # 0 \/ GenesisIds = {} THEN NoEntry ELSE u0
    BY Zenon DEF GenesisView
  <2> HIDE DEF v
  <2>4. \A h \in Heights : undo[h] = IF h # 0 \/ GenesisIds = {} THEN EmptyUndo ELSE u0
    BY <2>2, <2>3, Zenon DEF GetBlockUndo
  <2> QED BY <2>4 DEF EmptyUndo
<1>9. v \in Views
  <2>1. v.allNodes \in [Ids -> CMasternode \cup {NoEntry}]
    BY <1>1, FromTxFacts, Zenon DEF GenesisView
  <2>2. /\ v.nodesByOwner \in [Keys -> Ids \cup {NullId, NoEntry}]
        /\ v.nodesByOperator \in [Keys -> Ids \cup {NullId, NoEntry}]
    BY <1>1, <1>3, <1>4, Zenon DEF GenesisView
  <2>3. \A t \in Txns : (\E i \in GenesisIds : GenesisTxn[i] = t) => CreateRecord(at(t)) \in UndoRecords
    BY <1>1, <1>5, Zenon DEF UndoRecords, CreateRecord
  <2>4. v.blocksUndo \in [Heights -> TxsUndo \cup {NoEntry}]
    BY <2>3, Zenon DEF GenesisView, TxsUndo
  <2> QED BY <2>1, <2>2, <2>4, Zenon DEF GenesisView, Views
<1> HIDE DEF v, owner, oper, at, undo
<1>10. IndexOK(v.allNodes, v.nodesByOwner, v.nodesByOperator)
  BY <1>1, <1>2, <1>3, <1>4, <1>6, <1>7, FromTxFacts, NullAssumption, SMTT(60) DEF IndexOK
<1>11. UndoOK(v.allNodes, undo)
  <2>1. \A h \in Heights, t \in Txns : undo[h][t] # NoEntry =>
           /\ h = 0 /\ at(t) \in GenesisIds /\ GenesisTxn[at(t)] = t
           /\ undo[h][t] = CreateRecord(at(t)) /\ undo[h][t].id = at(t) /\ undo[h][t].type = "create"
    <3> SUFFICES ASSUME NEW h \in Heights, NEW t \in Txns, undo[h][t] # NoEntry
                 PROVE  /\ h = 0 /\ at(t) \in GenesisIds /\ GenesisTxn[at(t)] = t
                        /\ undo[h][t] = CreateRecord(at(t)) /\ undo[h][t].id = at(t) /\ undo[h][t].type = "create"
      BY Zenon
    <3>1. h = 0 /\ (\E i \in GenesisIds : GenesisTxn[i] = t) /\ undo[h][t] = CreateRecord(at(t))
      BY <1>8, Zenon
    <3>2. at(t) \in GenesisIds /\ GenesisTxn[at(t)] = t
      BY <1>5, <3>1, Zenon
    <3>3. CreateRecord(at(t)).id = at(t) /\ CreateRecord(at(t)).type = "create"
      BY Zenon DEF CreateRecord
    <3> QED BY <3>1, <3>2, <3>3, Zenon
  <2>2. \A i \in GenesisIds : undo[0][GenesisTxn[i]] = CreateRecord(i)
    BY <1>1, <1>2, <1>8, Zenon
  <2>3. \A i \in Ids : IsNode(v.allNodes[i]) =>
           i \in GenesisIds /\ v.allNodes[i].creationHeight = 0 /\ v.allNodes[i].resignHeight = NoHeight
    BY <1>1, <1>6, FromTxFacts
  <2>4. \A h \in Heights, t \in Txns, i \in Ids : undo[h][t] # ResignRecord(i)
    <3> SUFFICES ASSUME NEW h \in Heights, NEW t \in Txns, NEW i \in Ids PROVE undo[h][t] # ResignRecord(i)
      BY Zenon
    <3>1. CASE undo[h][t] = NoEntry
      BY <3>1, RecordFacts, Zenon
    <3>2. CASE undo[h][t] # NoEntry
      <4>1. at(t) \in Ids /\ undo[h][t] = CreateRecord(at(t))
        BY <1>1, <2>1, <3>2, Zenon
      <4> QED BY <4>1, RecordFacts, Zenon
    <3> QED BY <3>1, <3>2, Zenon
  <2>5. \A h \in Heights, t \in Txns : undo[h][t] # NoEntry => undo[h][t].id \in Ids
    BY <1>1, <2>1, Zenon
  <2> QED BY <1>1, <1>2, <1>6, <2>1, <2>2, <2>3, <2>4, <2>5, SMTT(60) DEF UndoOK
<1>12. \A h \in Heights, t \in Txns : h > 0 => undo[h][t] = NoEntry
  BY <1>8
<1> QED BY <1>9, <1>10, <1>11, <1>12, Zenon DEF v, undo

\* The registry of the genesis block satisfies the inductive invariant.
LEMMA InitInv == Init => Inv
<1> SUFFICES ASSUME Init PROVE Inv
  BY Zenon
<1>1. /\ base = GenesisView /\ mnview = EmptyCache(0) /\ chain = <<>> /\ pc = "idle"
      /\ base.lastHeight = 0 /\ Len(chain) = 0
  BY Zenon DEF Init, GenesisView
<1>2. TypeOK
  <2>1. block \in Blocks /\ Len(block.txs) = 0
    BY DEF Init, NoBlock, Blocks
  <2>2. base \in Views
    BY <1>1, GenesisFacts, Zenon
  <2>3. mnview \in Views
    BY <1>1, EmptyCacheType, Zenon
  <2>4. chain \in Seq(Blocks) /\ Len(chain) <= MaxHeight /\ 0 <= MaxTxs /\ 0 \in 0 .. MaxTxs
    BY <1>1, BoundAssumption
  <2> QED BY <1>1, <2>1, <2>2, <2>3, <2>4, Zenon DEF TypeOK, Init
<1>3. PhaseOK
  BY <1>1 DEF PhaseOK, EmptyCache
<1>4. BaseOK
  BY <1>1, GenesisFacts DEF BaseOK, BaseUndo
<1>5. View = base /\ PendingUndo = BaseUndo
  BY <1>1, <1>2, <1>3, IdleView, Zenon
<1>6. ViewOK
  BY <1>1, <1>4, <1>5
     DEF BaseOK, ViewOK, IndexConsistent, UndoRecordsApply, MintersRegistered, Heights
<1> QED BY <1>2, <1>3, <1>4, <1>6, Zenon DEF Inv

-----------------------------------------------------------------------------
(* Steps that leave the registry as it is.                                 *)

\* ConnectTip starts on an empty cache, after the proof-of-stake and height checks.
LEMMA ConnectBlockStep ==
    ASSUME Inv, NEW minter \in Keys, NEW minted \in Heights, ConnectBlock(minter, minted)
    PROVE  Inv'
<1>1. mnview' = mnview /\ base' = base /\ chain' = chain
  BY Zenon DEF ConnectBlock, Inv, PhaseOK
<1>2. View' = View /\ PendingUndo' = PendingUndo /\ BaseUndo' = BaseUndo
  BY <1>1, Zenon DEF ConnectBlock, View, PendingUndo, BaseUndo, ApplyCache
<1>3. TypeOK'
  <2>1. block' \in Blocks /\ Len(block'.txs) = 0
    BY DEF ConnectBlock, Blocks, Heights
  <2> QED BY <1>1, <2>1, BoundAssumption DEF TypeOK, Inv, ConnectBlock
<1>4. PhaseOK'
  BY <1>1, ZenonT(60) DEF PhaseOK, Inv, ConnectBlock
<1>5. BaseOK'
  BY <1>1, <1>2, Zenon DEF BaseOK, Inv
<1>6. Registered(View, minter, nHeight)
  <2> DEFINE id == MasternodeOf(base, minter)
  <2>1. View = base /\ PendingUndo = BaseUndo
    BY IdleView, Zenon DEF Inv, ConnectBlock
  <2>2. ExistByOperator(base, minter) /\ pc = "idle"
    BY Zenon DEF ConnectBlock, ContextualCheckProofOfStake
  <2>3. id \in Ids
    BY <2>2, Zenon DEF ExistByOperator, MasternodeOf, Inv, TypeOK, Views
  <2>4. IsNode(base.allNodes[id])
    BY <2>3, Zenon DEF Inv, BaseOK, IndexOK, MasternodeOf
  <2>5. PICK t \in Txns : BaseUndo[base.allNodes[id].creationHeight][t] = CreateRecord(id)
    BY <2>3, <2>4, Zenon DEF Inv, BaseOK, UndoOK
  <2>6. base.allNodes[id].creationHeight \in Heights
    BY <2>3, <2>4, Zenon DEF Inv, BaseOK, UndoOK
  <2>7. base.allNodes[id].creationHeight <= Len(chain)
    BY <2>1, <2>2, <2>3, <2>5, <2>6, RecordFacts, SMTT(60) DEF Inv, ViewOK
  <2> QED BY <2>1, <2>2, <2>6, <2>7 DEF Registered, nHeight, Heights, Inv, TypeOK
<1>7. ViewOK'
  BY <1>1, <1>2, <1>6, Zenon
     DEF ViewOK, Inv, IndexConsistent, UndoRecordsApply, MintersRegistered, ConnectBlock, nHeight
<1> QED BY <1>3, <1>4, <1>5, <1>7, Zenon DEF Inv

\* DisconnectTip starts on an empty cache.
LEMMA DisconnectBlockStep == ASSUME Inv, DisconnectBlock PROVE Inv'
<1>1. mnview' = mnview /\ base' = base /\ chain' = chain
  BY Zenon DEF DisconnectBlock, Inv, PhaseOK
<1>2. View' = View /\ PendingUndo' = PendingUndo /\ BaseUndo' = BaseUndo
  BY <1>1, Zenon DEF DisconnectBlock, View, PendingUndo, BaseUndo, ApplyCache
<1>3. TypeOK' /\ cursor' = Len(block'.txs)
  <2>1. Len(chain) \in 1 .. Len(chain)
    BY DEF DisconnectBlock, Inv, TypeOK
  <2>2. chain[Len(chain)] \in Blocks
    BY <2>1 DEF Inv, TypeOK
  <2>3. Len(chain[Len(chain)].txs) \in 0 .. MaxTxs
    BY <2>1, <2>2, BoundAssumption DEF Inv, PhaseOK, Blocks
  <2> QED BY <1>1, <2>2, <2>3 DEF TypeOK, Inv, DisconnectBlock
<1>4. PhaseOK'
  BY <1>1, <1>3 DEF PhaseOK, Inv, DisconnectBlock, TypeOK, Blocks
<1>5. BaseOK'
  BY <1>1, <1>2, Zenon DEF BaseOK, Inv
<1>6. ViewOK'
  BY <1>1, <1>2, Zenon
     DEF ViewOK, Inv, IndexConsistent, UndoRecordsApply, MintersRegistered, DisconnectBlock
<1> QED BY <1>3, <1>4, <1>5, <1>6, Zenon DEF Inv

\* The roll-back turns from the transactions to the undo records.
LEMMA OnUndoBlockStep == ASSUME Inv, OnUndoBlock PROVE Inv'
<1>1. mnview' = mnview /\ base' = base /\ chain' = chain /\ block' = block
  BY Zenon DEF OnUndoBlock
<1>2. View' = View /\ BaseUndo' = BaseUndo
  BY <1>1, Zenon DEF View, BaseUndo, ApplyCache
<1>3. PendingUndo' = PendingUndo
  BY <1>1, <1>2, BoundAssumption DEF OnUndoBlock, PendingUndo, Txns
<1>4. TypeOK' /\ PhaseOK'
  BY <1>1, BoundAssumption DEF OnUndoBlock, TypeOK, PhaseOK, Inv
<1>5. BaseOK'
  BY <1>1, <1>2, Zenon DEF BaseOK, Inv
<1>6. ViewOK'
  BY <1>1, <1>2, <1>3, Zenon
     DEF ViewOK, Inv, IndexConsistent, UndoRecordsApply, MintersRegistered, OnUndoBlock
<1> QED BY <1>4, <1>5, <1>6, Zenon DEF Inv

\* AddCriminalProof, a failed assertion, and stuttering change no part of Inv.
LEMMA OtherStep ==
    ASSUME Inv, UNCHANGED <<base, mnview, chain, pc, block, cursor, touched>>,
           criminals' \subseteq Ids, running' \in BOOLEAN
    PROVE  Inv'
<1>1. View' = View /\ BaseUndo' = BaseUndo /\ PendingUndo' = PendingUndo
  BY Zenon DEF View, BaseUndo, ApplyCache, PendingUndo
<1>2. TypeOK' /\ PhaseOK'
  BY Zenon DEF TypeOK, PhaseOK, Inv
<1>3. BaseOK' /\ ViewOK'
  BY <1>1, Zenon DEF BaseOK, ViewOK, Inv, IndexConsistent, UndoRecordsApply, MintersRegistered, nHeight, txn
<1> QED BY <1>2, <1>3, Zenon DEF Inv

\* An invalid block: its cache is dropped and the base is what one sees again.
LEMMA ConnectBlockFailsStep == ASSUME Inv, ConnectBlockFails PROVE Inv'
<1>1. base' = base /\ chain' = chain /\ base.lastHeight = Len(chain) /\ Len(chain) \in Nat
  BY DEF ConnectBlockFails, Inv, PhaseOK, TypeOK
<1>2. TypeOK'
  <2>1. block' \in Blocks /\ Len(block'.txs) = 0
    BY DEF ConnectBlockFails, NoBlock, Blocks
  <2> QED BY <1>1, <2>1, EmptyCacheType, BoundAssumption DEF ConnectBlockFails, Inv, TypeOK
<1>3. PhaseOK'
  BY <1>1, Zenon DEF ConnectBlockFails, PhaseOK, EmptyCache, Inv
<1>4. BaseOK'
  BY <1>1, Zenon DEF BaseOK, BaseUndo, Inv
<1> QED BY <1>2, <1>3, <1>4, IdleStep, Zenon DEF ConnectBlockFails

-----------------------------------------------------------------------------
(* Connecting the transactions of a block.                                 *)

\* What the steps of a block's transactions have in common.
LEMMA ConnectTxFacts ==
    ASSUME Inv, NEW tx \in TxPool, ConnectTx(tx)
    PROVE  /\ base' = base /\ chain' = chain /\ pc = "connect" /\ pc' = "connect"
           /\ nHeight \in Heights /\ txn \in Txns /\ nHeight' = nHeight /\ txn' = txn + 1
           /\ nHeight > Len(chain) /\ Len(chain) \in Nat
           /\ BaseOK' /\ BaseUndo' = BaseUndo
           /\ mnview' \in Views /\ touched' \subseteq Ids => TypeOK'
           /\ mnview'.lastHeight = mnview.lastHeight => PhaseOK'
           /\ block'.minter = block.minter /\ tx.id \in Ids
<1>1. base' = base /\ chain' = chain /\ pc = "connect" /\ pc' = "connect"
  BY Zenon DEF ConnectTx
<1>2. /\ block \in Blocks /\ block.txs \in Seq(Txs) /\ tx \in Txs
      /\ block' = [block EXCEPT !.txs = Append(@, tx)]
  BY TxPoolAssumption, Zenon DEF ConnectTx, Inv, TypeOK, Blocks
<1>3. block' \in Blocks /\ Len(block'.txs) = Len(block.txs) + 1 /\ block'.minter = block.minter
  <2>1. Append(block.txs, tx) \in Seq(Txs) /\ Len(Append(block.txs, tx)) = Len(block.txs) + 1
    BY <1>2
  <2>2. block'.txs = Append(block.txs, tx) /\ block'.minter = block.minter
    BY <1>2, Zenon DEF Blocks
  <2>3. block' \in Blocks
    BY <1>2, <2>1, ZenonT(60) DEF Blocks
  <2> QED BY <2>1, <2>2, <2>3, Zenon
<1>4. Len(chain) \in Nat /\ nHeight \in Heights /\ nHeight > Len(chain)
  BY <1>1, BoundAssumption DEF Inv, PhaseOK, TypeOK, nHeight, Heights
<1>5. txn \in Txns /\ txn' = txn + 1 /\ nHeight' = nHeight
  BY <1>1, <1>2, <1>3, BoundAssumption DEF ConnectTx, txn, nHeight, Txns
<1>6. BaseOK' /\ BaseUndo' = BaseUndo
  BY <1>1, Zenon DEF Inv, BaseOK, BaseUndo
<1>7. mnview' \in Views /\ touched' \subseteq Ids => TypeOK'
  BY <1>1, <1>3, <1>5, BoundAssumption, Zenon DEF Inv, TypeOK, ConnectTx, txn, Txns
<1>8. mnview'.lastHeight = mnview.lastHeight => PhaseOK'
  BY <1>1, Zenon DEF Inv, PhaseOK
<1> QED BY <1>1, <1>2, <1>3, <1>4, <1>5, <1>6, <1>7, <1>8, Zenon DEF Txs

\* A creation that passes the checks of OnMasternodeCreate.
LEMMA CreateStep ==
    ASSUME Inv, NEW tx \in TxPool, ConnectCreate(tx), mnview' # mnview
    PROVE  Inv'
<1> DEFINE id == tx.id
           n == FromTx(id, nHeight)
           c0 == SetNode(mnview, id, n)
           c1 == SetIndex(c0, OwnerOf[id], OperatorOf[id], id)
           w1 == ApplyCache(base, c1)
           r == CreateRecord(id)
<1>1. ConnectTx(tx) /\ touched' = touched
  BY Zenon DEF ConnectCreate
<1>f. /\ base' = base /\ chain' = chain /\ pc = "connect" /\ pc' = "connect"
      /\ nHeight \in Heights /\ txn \in Txns /\ nHeight' = nHeight /\ txn' = txn + 1
      /\ nHeight > Len(chain) /\ Len(chain) \in Nat /\ View' = ApplyCache(base, mnview')
  BY <1>1, ConnectTxFacts, Zenon DEF View
<1>2. /\ ~IsNode(View.allNodes[id])
      /\ ~ExistByOwner(View, OwnerOf[id]) /\ ~ExistByOperator(View, OperatorOf[id])
      /\ mnview' = AddUndo(c1, nHeight, txn, r)
  BY Zenon DEF ConnectCreate, ExistMasternode, OnMasternodeCreate
<1>3. /\ base \in Views /\ mnview \in Views /\ id \in Ids
      /\ OwnerOf[id] \in Keys /\ OperatorOf[id] \in Keys
      /\ n \in CMasternode /\ r \in UndoRecords
      /\ View.allNodes \in NodeMaps /\ View.nodesByOwner \in IndexMaps
      /\ View.nodesByOperator \in IndexMaps /\ PendingUndo \in UndoMaps
  BY <1>1, ConnectTxFacts, FromTxFacts, KeysAssumption, ViewTypes, Zenon
     DEF Inv, TypeOK, UndoRecords, CreateRecord
<1>0. id \in Entries
  BY <1>3, Zenon DEF Entries
<1> HIDE DEF n
<1>4. /\ c1 \in Views /\ c1.lastHeight = mnview.lastHeight
      /\ w1.allNodes = [View.allNodes EXCEPT ![id] = n]
      /\ w1.nodesByOwner = [View.nodesByOwner EXCEPT ![OwnerOf[id]] = id]
      /\ w1.nodesByOperator = [View.nodesByOperator EXCEPT ![OperatorOf[id]] = id]
      /\ w1.blocksUndo = View.blocksUndo
  <2>1. /\ base \in Views /\ mnview \in Views /\ id \in Ids /\ id \in Entries
        /\ OwnerOf[id] \in Keys /\ OperatorOf[id] \in Keys /\ n \in CMasternode
    BY <1>0, <1>3, Zenon
  <2>2. Written(base, mnview, c1, id, n, OwnerOf[id], OperatorOf[id], id)
    BY <2>1, NodeAndIndexWritten, Zenon
  <2> QED BY <2>2, Zenon DEF Written, View
<1> HIDE DEF c0, c1
<1>5. \A u \in Txns : GetBlockUndo(base, nHeight)[u] = NoEntry
  BY <1>f, Zenon DEF Inv, BaseOK, BaseUndo
<1>6. /\ mnview' \in Views /\ mnview'.lastHeight = mnview.lastHeight
      /\ View'.allNodes = w1.allNodes
      /\ View'.nodesByOwner = w1.nodesByOwner /\ View'.nodesByOperator = w1.nodesByOperator
      /\ \A i \in Heights, u \in Txns :
           GetBlockUndo(View', i)[u] = IF i = nHeight /\ u = txn THEN r ELSE GetBlockUndo(w1, i)[u]
  <2> DEFINE d == AddUndo(c1, nHeight, txn, r)
             w2 == ApplyCache(base, d)
  <2>1. /\ base \in Views /\ c1 \in Views /\ nHeight \in Heights /\ txn \in Txns /\ r \in UndoRecords
        /\ \A u \in Txns : GetBlockUndo(base, nHeight)[u] = NoEntry
    BY <1>f, <1>3, <1>4, <1>5, Zenon
  <2> HIDE DEF r
  <2>2. /\ d \in Views /\ d.lastHeight = c1.lastHeight
        /\ w2.allNodes = w1.allNodes
        /\ w2.nodesByOwner = w1.nodesByOwner /\ w2.nodesByOperator = w1.nodesByOperator
        /\ \A i \in Heights, u \in Txns :
             GetBlockUndo(w2, i)[u] = IF i = nHeight /\ u = txn THEN r ELSE GetBlockUndo(w1, i)[u]
    BY <2>1, UndoWritten, SMTT(60)
  <2>3. mnview' = d /\ View' = w2 /\ c1.lastHeight = mnview.lastHeight
    BY <1>f, <1>2, <1>4, Zenon DEF r
  <2> HIDE DEF d
  <2> QED BY <2>2, <2>3, Zenon
<1>7. TypeOK' /\ PhaseOK' /\ BaseOK'
  BY <1>1, <1>6, ConnectTxFacts, ZenonT(60) DEF Inv, TypeOK
<1>8. \A i \in Heights, u \in Txns :
        PendingUndo'[i][u] = IF i = nHeight /\ u = txn THEN r ELSE PendingUndo[i][u]
  BY <1>f, <1>4, <1>6, SMTT(60) DEF PendingUndo, GetBlockUndo
<1>9. PendingUndo' = [PendingUndo EXCEPT ![nHeight] = [@ EXCEPT ![txn] = r]]
  <2>1. PendingUndo' \in UndoMaps
    BY <1>7, PendingUndoType, Zenon
  <2> QED BY <1>f, <1>3, <1>8, <2>1, SMTT(60) DEF UndoMaps, TxsUndo
<1>10. PendingUndo[nHeight][txn] = NoEntry
  BY <1>f DEF Inv, ViewOK, Txns, Heights
<1>11. View.nodesByOwner[OwnerOf[id]] \notin Ids /\ View.nodesByOperator[OperatorOf[id]] \notin Ids
  BY <1>2, NullAssumption, Zenon DEF ExistByOwner, ExistByOperator
<1>12. IndexConsistent'
  <2>1. IndexOK(View.allNodes, View.nodesByOwner, View.nodesByOperator)
    BY Zenon DEF Inv, ViewOK, IndexConsistent
  <2>2. nHeight \in Heights
    BY <1>f, Zenon
  <2>3. IndexOK([View.allNodes EXCEPT ![id] = FromTx(id, nHeight)],
                [View.nodesByOwner EXCEPT ![OwnerOf[id]] = id],
                [View.nodesByOperator EXCEPT ![OperatorOf[id]] = id])
    BY <1>2, <1>3, <1>11, <2>1, <2>2, CreateKeepsIndex, Zenon
  <2> QED BY <1>4, <1>6, <2>3, Zenon DEF IndexConsistent, n
<1>13. UndoRecordsApply'
  <2>1. UndoOK(View.allNodes, PendingUndo)
    BY Zenon DEF Inv, ViewOK, UndoRecordsApply
  <2>2. nHeight \in Heights /\ txn \in Txns
    BY <1>f, Zenon
  <2>3. UndoOK([View.allNodes EXCEPT ![id] = FromTx(id, nHeight)],
               [PendingUndo EXCEPT ![nHeight] = [@ EXCEPT ![txn] = CreateRecord(id)]])
    BY <1>2, <1>3, <1>10, <2>1, <2>2, CreateKeepsUndo, Zenon
  <2> QED BY <1>4, <1>6, <1>9, <2>3, Zenon DEF UndoRecordsApply, n
<1>14. \A m, h : Registered(View, m, h) => Registered(View', m, h)
  <2>0. /\ View'.allNodes = [View.allNodes EXCEPT ![id] = n]
        /\ View'.nodesByOperator = [View.nodesByOperator EXCEPT ![OperatorOf[id]] = id]
        /\ View.allNodes \in NodeMaps /\ View.nodesByOperator \in IndexMaps
    BY <1>3, <1>4, <1>6, Zenon
  <2> SUFFICES ASSUME NEW m, NEW h, Registered(View, m, h) PROVE Registered(View', m, h)
    BY Zenon
  <2>1. m \in Keys /\ View.nodesByOperator[m] \in Ids
    BY <2>0, Zenon DEF Registered, ExistByOperator, IndexMaps
  <2>2. m # OperatorOf[id] /\ View.nodesByOperator[m] # id
    BY <1>2, <1>11, <2>1, Zenon DEF Inv, ViewOK, IndexConsistent, IndexOK
  <2>3. View'.nodesByOperator[m] = View.nodesByOperator[m]
    BY <2>0, <2>1, <2>2, Zenon DEF IndexMaps
  <2>4. View'.allNodes[View.nodesByOperator[m]] = View.allNodes[View.nodesByOperator[m]]
    BY <2>0, <2>1, <2>2, Zenon DEF NodeMaps
  <2> QED BY <2>1, <2>3, <2>4, Zenon DEF Registered, ExistByOperator, MasternodeOf
<1>15. MintersRegistered'
  BY <1>1, <1>14, ConnectTxFacts, Zenon DEF Inv, ViewOK, MintersRegistered
<1>16. ViewOK'
  <2>1. \A i \in Heights, u \in Txns : PendingUndo[i][u] # NoEntry => i <= Len(chain) \/ (i = nHeight /\ u < txn)
    BY <1>f, Zenon DEF Inv, ViewOK
  <2>2. \A i \in Heights, u \in Txns : PendingUndo'[i][u] # NoEntry => i <= Len(chain) \/ (i = nHeight /\ u < txn + 1)
    BY <1>f, <1>8, <2>1 DEF Txns, Heights
  <2> QED BY <1>f, <1>12, <1>13, <1>15, <2>2, Zenon DEF ViewOK
<1> QED BY <1>7, <1>16, Zenon DEF Inv

-----------------------------------------------------------------------------
(* Connecting a block.                                                     *)

\* Every change of an existing node keeps its keys and its creation height, so it stays a node.
LEMMA ChangedNode ==
    ASSUME TypeOK, IndexConsistent, NEW id \in Ids, IsNode(View.allNodes[id])
    PROVE  LET node == View.allNodes[id] IN
           /\ node \in CMasternode
           /\ \A n \in CMasternode : n.ownerAuthAddress = node.ownerAuthAddress => IsNode(n)
<1> DEFINE node == View.allNodes[id]
<1>1. node \in CMasternode
  BY ViewTypes, Zenon DEF NodeMaps, IsNode
<1>2. node.ownerAuthAddress \in Keys
  BY KeysAssumption DEF IndexConsistent, IndexOK
<1>3. EmptyNode.ownerAuthAddress \notin Keys
  BY KeysAssumption, Zenon DEF EmptyNode
<1> HIDE DEF node
<1>4. \A n \in CMasternode : n.ownerAuthAddress = node.ownerAuthAddress => n # EmptyNode /\ n # NoEntry
  BY <1>2, <1>3, NullAssumption, Zenon
<1> QED BY <1>1, <1>4, Zenon DEF IsNode, node

\* Such a change leaves every minter registered.
LEMMA RegisteredKept ==
    ASSUME NEW v, NEW w, NEW id \in Ids, NEW n, v.allNodes \in NodeMaps,
           w.allNodes = [v.allNodes EXCEPT ![id] = n], w.nodesByOperator = v.nodesByOperator,
           n.creationHeight = v.allNodes[id].creationHeight, NEW m, NEW h, Registered(v, m, h)
    PROVE  Registered(w, m, h)
<1>1. \A j : w.allNodes[j] = v.allNodes[j] \/ (j = id /\ w.allNodes[j] = n)
  BY DEF NodeMaps
<1> QED BY <1>1, ZenonT(60) DEF Registered, ExistByOperator, MasternodeOf

\* A signed resignation of an enabled node.
LEMMA ResignStep ==
    ASSUME Inv, NEW tx \in TxPool, ConnectResign(tx), mnview' # mnview
    PROVE  Inv'
<1> DEFINE id == tx.id
           node == View.allNodes[id]
           n == [node EXCEPT !.resignHeight = nHeight]
           c1 == SetNode(mnview, id, n)
           w1 == ApplyCache(base, c1)
           r == ResignRecord(id)
<1>1. ConnectTx(tx) /\ touched' = touched
  BY Zenon DEF ConnectResign
<1>f. /\ base' = base /\ chain' = chain /\ pc = "connect" /\ pc' = "connect"
      /\ nHeight \in Heights /\ txn \in Txns /\ nHeight' = nHeight /\ txn' = txn + 1
      /\ nHeight > Len(chain) /\ Len(chain) \in Nat /\ View' = ApplyCache(base, mnview')
  BY <1>1, ConnectTxFacts, Zenon DEF View
<1>2. /\ IsNode(node) /\ GetState(node, nHeight) \in {"PRE_ENABLED", "ENABLED"}
      /\ mnview' = AddUndo(c1, nHeight, txn, r)
  BY Zenon DEF ConnectResign, ExistMasternode, OnMasternodeResign
<1>3. /\ base \in Views /\ mnview \in Views /\ id \in Ids /\ r \in UndoRecords
      /\ View.allNodes \in NodeMaps /\ View.nodesByOwner \in IndexMaps
      /\ View.nodesByOperator \in IndexMaps /\ PendingUndo \in UndoMaps
      /\ nHeight \in Heights /\ txn \in Txns
  BY <1>1, ConnectTxFacts, ViewTypes, Zenon DEF Inv, TypeOK, UndoRecords, ResignRecord
<1>4. node \in CMasternode /\ node.resignHeight = NoHeight
  <2>1. node \in CMasternode
    BY <1>2, <1>3, Zenon DEF NodeMaps, IsNode
  <2> QED BY <1>2, <2>1, Zenon DEF GetState, NoHeight, CMasternode
<1>5. /\ n \in CMasternode /\ n.resignHeight = nHeight /\ n.creationHeight = node.creationHeight
      /\ n.ownerAuthAddress = node.ownerAuthAddress /\ n.operatorAuthAddress = node.operatorAuthAddress
  <2> HIDE DEF node
  <2> QED BY <1>3, <1>4, BoundAssumption, SMTT(60) DEF CMasternode, Heights
<1> HIDE DEF n
<1>6. IsNode(n)
  BY <1>2, <1>3, <1>5, ChangedNode, Zenon DEF Inv, ViewOK
<1>7. /\ c1 \in Views /\ c1.lastHeight = mnview.lastHeight
      /\ w1.allNodes = [View.allNodes EXCEPT ![id] = n]
      /\ w1.nodesByOwner = View.nodesByOwner /\ w1.nodesByOperator = View.nodesByOperator
      /\ w1.blocksUndo = View.blocksUndo
  BY <1>3, <1>5, NodeWritten DEF View
<1> HIDE DEF c1
<1>8. \A u \in Txns : GetBlockUndo(base, nHeight)[u] = NoEntry
  BY <1>f, Zenon DEF Inv, BaseOK, BaseUndo
<1>9. /\ mnview' \in Views /\ mnview'.lastHeight = mnview.lastHeight
      /\ View'.allNodes = w1.allNodes
      /\ View'.nodesByOwner = w1.nodesByOwner /\ View'.nodesByOperator = w1.nodesByOperator
      /\ \A i \in Heights, u \in Txns :
           GetBlockUndo(View', i)[u] = IF i = nHeight /\ u = txn THEN r ELSE GetBlockUndo(w1, i)[u]
  <2> DEFINE d == AddUndo(c1, nHeight, txn, r)
             w2 == ApplyCache(base, d)
  <2>1. /\ base \in Views /\ c1 \in Views /\ nHeight \in Heights /\ txn \in Txns /\ r \in UndoRecords
        /\ \A u \in Txns : GetBlockUndo(base, nHeight)[u] = NoEntry
    BY <1>f, <1>3, <1>7, <1>8, Zenon
  <2> HIDE DEF r
  <2>2. /\ d \in Views /\ d.lastHeight = c1.lastHeight
        /\ w2.allNodes = w1.allNodes
        /\ w2.nodesByOwner = w1.nodesByOwner /\ w2.nodesByOperator = w1.nodesByOperator
        /\ \A i \in Heights, u \in Txns :
             GetBlockUndo(w2, i)[u] = IF i = nHeight /\ u = txn THEN r ELSE GetBlockUndo(w1, i)[u]
    BY <2>1, UndoWritten, SMTT(60)
  <2>3. mnview' = d /\ View' = w2 /\ c1.lastHeight = mnview.lastHeight
    BY <1>f, <1>2, <1>7, SMTT(60) DEF r
  <2> HIDE DEF d
  <2> QED BY <2>2, <2>3, Zenon
<1>10. TypeOK' /\ PhaseOK' /\ BaseOK'
  BY <1>1, <1>9, ConnectTxFacts, Zenon DEF Inv, TypeOK
<1>11. \A i \in Heights, u \in Txns :
        PendingUndo'[i][u] = IF i = nHeight /\ u = txn THEN r ELSE PendingUndo[i][u]
  BY <1>f, <1>7, <1>9, SMTT(60) DEF PendingUndo, GetBlockUndo
<1>12. PendingUndo' = [PendingUndo EXCEPT ![nHeight] = [@ EXCEPT ![txn] = r]]
  <2>1. PendingUndo' \in UndoMaps
    BY <1>10, PendingUndoType, Zenon
  <2> QED BY <1>f, <1>3, <1>11, <2>1 DEF UndoMaps, TxsUndo
<1>13. IndexConsistent' /\ UndoRecordsApply'
  <2>1. IndexOK(View.allNodes, View.nodesByOwner, View.nodesByOperator) /\ UndoOK(View.allNodes, PendingUndo)
    BY Zenon DEF Inv, ViewOK, IndexConsistent, UndoRecordsApply
  <2>2. \A i \in Heights, u \in Txns : PendingUndo[i][u] # NoEntry => i < nHeight \/ (i = nHeight /\ u < txn)
    BY <1>f DEF Inv, ViewOK, Heights
  <2>3. /\ IndexOK([View.allNodes EXCEPT ![id] = n], View.nodesByOwner, View.nodesByOperator)
        /\ UndoOK([View.allNodes EXCEPT ![id] = n],
                  [PendingUndo EXCEPT ![nHeight] = [@ EXCEPT ![txn] = ResignRecord(id)]])
    <3>1. /\ View.allNodes \in NodeMaps /\ View.nodesByOwner \in IndexMaps
          /\ View.nodesByOperator \in IndexMaps /\ PendingUndo \in UndoMaps
          /\ id \in Ids /\ n \in CMasternode /\ nHeight \in Heights /\ txn \in Txns
      BY <1>3, <1>5, Zenon
    <3>2. Resigns(View.allNodes, PendingUndo, id, n, nHeight, txn)
      BY <1>2, <1>4, <1>5, <1>6, <2>2, ZenonT(60) DEF Resigns
    <3> HIDE DEF id
    <3> QED BY <2>1, <3>1, <3>2, ResignKeeps, ZenonT(60)
  <2> QED BY <1>7, <1>9, <1>12, <2>3, Zenon DEF IndexConsistent, UndoRecordsApply
<1>14. \A m, h : Registered(View, m, h) => Registered(View', m, h)
  BY <1>3, <1>5, <1>7, <1>9, RegisteredKept, SMTT(60)
<1>15. MintersRegistered'
  BY <1>1, <1>14, ConnectTxFacts, ZenonT(60) DEF Inv, ViewOK, MintersRegistered
<1>16. ViewOK'
  <2>1. \A i \in Heights, u \in Txns : PendingUndo[i][u] # NoEntry => i <= Len(chain) \/ (i = nHeight /\ u < txn)
    BY <1>f, Zenon DEF Inv, ViewOK
  <2>2. \A i \in Heights, u \in Txns : PendingUndo'[i][u] # NoEntry => i <= Len(chain) \/ (i = nHeight /\ u < txn + 1)
    BY <1>f, <1>11, <2>1 DEF Txns, Heights
  <2> QED BY <1>f, <1>13, <1>15, <2>2, Zenon DEF ViewOK
<1> QED BY <1>10, <1>16, Zenon DEF Inv

\* A ban, an unban and a minted block, seen through the cache.
LEMMA UpdateView ==
    ASSUME Inv, NEW id \in Ids, NEW n \in CMasternode, IsNode(View.allNodes[id]),
           n.ownerAuthAddress = View.allNodes[id].ownerAuthAddress,
           n.operatorAuthAddress = View.allNodes[id].operatorAuthAddress,
           n.creationHeight = View.allNodes[id].creationHeight,
           n.resignHeight = View.allNodes[id].resignHeight
    PROVE  LET c == SetNode(mnview, id, n)
               w == ApplyCache(base, c)
           IN  /\ c \in Views /\ c.lastHeight = mnview.lastHeight /\ c.blocksUndo = mnview.blocksUndo
               /\ IndexOK(w.allNodes, w.nodesByOwner, w.nodesByOperator)
               /\ UndoOK(w.allNodes, PendingUndo)
               /\ w.blocksUndo = View.blocksUndo
               /\ \A m, h : Registered(View, m, h) => Registered(w, m, h)
<1> DEFINE c == SetNode(mnview, id, n)
           w == ApplyCache(base, c)
<1>1. /\ View.allNodes \in NodeMaps /\ View.nodesByOwner \in IndexMaps
      /\ View.nodesByOperator \in IndexMaps /\ PendingUndo \in UndoMaps
      /\ base \in Views /\ mnview \in Views
  BY ViewTypes, Zenon DEF Inv, TypeOK
<1>2. IsNode(n)
  BY ChangedNode, ZenonT(60) DEF Inv, ViewOK
<1>3. /\ c \in Views /\ c.lastHeight = mnview.lastHeight /\ c.blocksUndo = mnview.blocksUndo
      /\ w.allNodes = [View.allNodes EXCEPT ![id] = n]
      /\ w.nodesByOwner = View.nodesByOwner /\ w.nodesByOperator = View.nodesByOperator
      /\ w.blocksUndo = View.blocksUndo
  BY <1>1, NodeWritten DEF View
<1> HIDE DEF c, w
<1>4. /\ IndexOK([View.allNodes EXCEPT ![id] = n], View.nodesByOwner, View.nodesByOperator)
      /\ UndoOK([View.allNodes EXCEPT ![id] = n], PendingUndo)
  <2>1. IndexOK(View.allNodes, View.nodesByOwner, View.nodesByOperator) /\ UndoOK(View.allNodes, PendingUndo)
    BY Zenon DEF Inv, ViewOK, IndexConsistent, UndoRecordsApply
  <2> QED BY <1>1, <1>2, <2>1, UpdateKeeps, ZenonT(60)
<1>5. \A m, h : Registered(View, m, h) => Registered(w, m, h)
  BY <1>1, <1>3, RegisteredKept, Zenon
<1> QED BY <1>3, <1>4, <1>5, ZenonT(60) DEF c, w

\* A ban in a block that is being connected.
LEMMA CriminalStep ==
    ASSUME Inv, NEW tx \in TxPool, ConnectCriminal(tx), mnview' # mnview
    PROVE  Inv'
<1> DEFINE id == tx.id
           node == View.allNodes[id]
           n == [node EXCEPT !.banHeight = nHeight, !.banTx = <<nHeight, id>>]
<1>1. ConnectTx(tx)
  BY Zenon DEF ConnectCriminal
<1>2. IsNode(node) /\ mnview' = SetNode(mnview, id, n) /\ touched' = touched \cup {id}
  BY Zenon DEF ConnectCriminal, ExistMasternode, BanCriminal
<1>3. id \in Ids /\ nHeight \in Nat /\ node \in CMasternode
  BY <1>1, <1>2, ConnectTxFacts, ChangedNode, BoundAssumption DEF Heights, Inv, ViewOK
<1>4. /\ n \in CMasternode /\ n.resignHeight = node.resignHeight /\ n.creationHeight = node.creationHeight
      /\ n.ownerAuthAddress = node.ownerAuthAddress /\ n.operatorAuthAddress = node.operatorAuthAddress
  <2> HIDE DEF node
  <2> QED BY <1>3, ZenonT(60) DEF CMasternode, BanTxs
<1> HIDE DEF n
<1>5. View' = ApplyCache(base, mnview')
  BY <1>1, ConnectTxFacts, Zenon DEF View
<1>6. /\ mnview' \in Views /\ mnview'.lastHeight = mnview.lastHeight
      /\ IndexConsistent' /\ UndoOK(View'.allNodes, PendingUndo)
      /\ View'.blocksUndo = View.blocksUndo
      /\ \A m, h : Registered(View, m, h) => Registered(View', m, h)
  BY <1>2, <1>3, <1>4, <1>5, UpdateView, ZenonT(60) DEF IndexConsistent
<1>7. TypeOK' /\ PhaseOK' /\ BaseOK'
  BY <1>1, <1>2, <1>3, <1>6, ConnectTxFacts, ZenonT(60) DEF Inv, TypeOK
<1>8. PendingUndo' = PendingUndo
  BY <1>1, <1>6, ConnectTxFacts, ZenonT(60) DEF PendingUndo, GetBlockUndo
<1>9. MintersRegistered'
  BY <1>1, <1>6, ConnectTxFacts, Zenon DEF Inv, ViewOK, MintersRegistered
<1>10. ViewOK'
  BY <1>1, <1>6, <1>8, <1>9, ConnectTxFacts DEF Inv, ViewOK, UndoRecordsApply, Txns
<1> QED BY <1>7, <1>10, Zenon DEF Inv

\* All four kinds of transactions.
LEMMA TxStep ==
    ASSUME Inv, NEW tx \in TxPool,
           ConnectCreate(tx) \/ ConnectResign(tx) \/ ConnectCriminal(tx) \/ ConnectSpend(tx)
    PROVE  Inv'
<1>1. ConnectTx(tx)
  BY ZenonT(60) DEF ConnectCreate, ConnectResign, ConnectCriminal, ConnectSpend
<1>2. CASE mnview' = mnview
  <2>1. View' = View /\ PendingUndo' = PendingUndo
    BY <1>1, <1>2, Zenon DEF ConnectTx, View, ApplyCache, PendingUndo
  <2>2. touched' \subseteq Ids
    BY <1>1, ConnectTxFacts, ZenonT(60) DEF ConnectCreate, ConnectResign, ConnectCriminal, ConnectSpend, Inv, TypeOK
  <2>3. TypeOK' /\ PhaseOK' /\ BaseOK'
    BY <1>1, <1>2, <2>2, ConnectTxFacts, Zenon DEF Inv, TypeOK
  <2>4. ViewOK'
    BY <1>1, <2>1, ConnectTxFacts, SMTT(60)
       DEF ViewOK, Inv, IndexConsistent, UndoRecordsApply, MintersRegistered, Txns
  <2> QED BY <2>3, <2>4, Zenon DEF Inv
<1>3. CASE mnview' # mnview
  BY <1>3, CreateStep, ResignStep, CriminalStep, Zenon DEF ConnectSpend
<1> QED BY <1>2, <1>3, Zenon

-----------------------------------------------------------------------------
(* Rolling back a block.                                                   *)

\* DisconnectBlock undoes a ban, or passes a transaction over.
LEMMA DisconnectTxStep == ASSUME Inv, DisconnectTx PROVE Inv'
<1> DEFINE id == block.txs[cursor].id
           node == View.allNodes[id]
           n == [node EXCEPT !.banHeight = NoHeight, !.banTx = NullTx]
<1>1. /\ base' = base /\ chain' = chain /\ pc = "disconnect" /\ pc' = "disconnect"
      /\ block' = block /\ cursor' = cursor - 1 /\ cursor \in 1 .. MaxTxs /\ running' = running
      /\ criminals' = criminals
  <2>1. /\ base' = base /\ chain' = chain /\ pc = "disconnect" /\ pc' = "disconnect"
        /\ block' = block /\ cursor' = cursor - 1 /\ cursor > 0 /\ running' = running
        /\ criminals' = criminals
    BY Zenon DEF DisconnectTx
  <2>2. cursor \in 0 .. MaxTxs
    BY Zenon DEF Inv, TypeOK
  <2>3. cursor \in 1 .. MaxTxs
    BY <2>1, <2>2, BoundAssumption
  <2> QED BY <2>1, <2>3, Zenon
<1>2. id \in Ids
  <2>1. block.txs \in Seq(Txs) /\ cursor \in 1 .. Len(block.txs)
    BY <1>1 DEF Inv, PhaseOK, TypeOK, Blocks
  <2>2. block.txs[cursor] \in Txs
    BY <2>1
  <2> QED BY <2>2, Zenon DEF Txs
<1>3. /\ mnview' \in Views /\ mnview'.lastHeight = mnview.lastHeight
      /\ IndexConsistent' /\ UndoOK(View'.allNodes, PendingUndo)
      /\ View'.blocksUndo = View.blocksUndo
      /\ \A m, h : Registered(View, m, h) => Registered(View', m, h)
  <2>1. CASE mnview' = mnview
    BY <1>1, <2>1, Zenon DEF Inv, TypeOK, ViewOK, IndexConsistent, UndoRecordsApply, View, ApplyCache
  <2>2. CASE mnview' # mnview
    <3>1. IsNode(node) /\ mnview' = SetNode(mnview, id, n)
      BY <2>2, ZenonT(60) DEF DisconnectTx, ExistMasternode, UnbanCriminal
    <3>2. node \in CMasternode
      BY <1>2, <3>1, ChangedNode, Zenon DEF Inv, ViewOK
    <3>3. /\ n \in CMasternode /\ n.resignHeight = node.resignHeight /\ n.creationHeight = node.creationHeight
          /\ n.ownerAuthAddress = node.ownerAuthAddress /\ n.operatorAuthAddress = node.operatorAuthAddress
      <4> HIDE DEF node
      <4> QED BY <3>2, ZenonT(60) DEF CMasternode
    <3> HIDE DEF n
    <3>4. View' = ApplyCache(base, mnview')
      BY <1>1, Zenon DEF View
    <3> QED BY <1>2, <3>1, <3>3, <3>4, UpdateView, ZenonT(60) DEF IndexConsistent
  <2> QED BY <2>1, <2>2, Zenon
<1>4. PendingUndo' = PendingUndo
  BY <1>1, <1>3, Zenon DEF PendingUndo, GetBlockUndo
<1>5. TypeOK'
  <2>1. touched' \subseteq Ids
    BY <1>2, ZenonT(60) DEF DisconnectTx, Inv, TypeOK
  <2>2. cursor' \in 0 .. MaxTxs
    BY <1>1, BoundAssumption
  <2> QED BY <1>1, <1>3, <2>1, <2>2, Zenon DEF Inv, TypeOK
<1>6. PhaseOK' /\ BaseOK'
  BY <1>1, <1>3, BoundAssumption DEF Inv, PhaseOK, BaseOK, BaseUndo, TypeOK, Blocks
<1>7. ViewOK'
  BY <1>1, <1>3, <1>4, Zenon DEF Inv, ViewOK, UndoRecordsApply, MintersRegistered
<1> QED BY <1>5, <1>6, <1>7, Zenon DEF Inv

\* The record at the cursor, and what is left to undo after it.
LEMMA UndoTxFacts ==
    ASSUME Inv, UndoTx
    PROVE  LET h == Len(chain) IN
           /\ base' = base /\ chain' = chain /\ pc = "undo" /\ pc' = "undo" /\ block' = block
           /\ cursor' = cursor - 1 /\ cursor \in Txns /\ h \in Heights /\ h > 0
           /\ GetBlockUndo(View, h)[cursor] = PendingUndo[h][cursor]
           /\ PendingUndo[h][cursor] \in UndoRecords \cup {NoEntry}
           /\ \A i \in Heights, u \in Txns :
                 PendingUndo[i][u] # NoEntry => i < h \/ (i = h /\ u <= cursor)
           /\ mnview' \in Views /\ View'.blocksUndo = View.blocksUndo =>
                 /\ TypeOK'
                 /\ PendingUndo' = [PendingUndo EXCEPT ![h] = [@ EXCEPT ![cursor] = NoEntry]]
           /\ mnview'.lastHeight = mnview.lastHeight => PhaseOK' /\ BaseOK'
<1> DEFINE h == Len(chain)
<1>1. /\ base' = base /\ chain' = chain /\ pc = "undo" /\ pc' = "undo" /\ block' = block
      /\ cursor' = cursor - 1 /\ criminals' = criminals /\ touched' = touched /\ running' = running
  BY Zenon DEF UndoTx
<1>2. cursor \in Txns /\ h \in Heights /\ h > 0 /\ cursor' \in 0 .. MaxTxs
  BY <1>1, BoundAssumption DEF UndoTx, Inv, TypeOK, PhaseOK, Txns, Heights
<1>3. GetBlockUndo(View, h)[cursor] = PendingUndo[h][cursor]
  BY <1>2 DEF PendingUndo, Txns
<1>4. PendingUndo \in UndoMaps
  BY ViewTypes, Zenon DEF Inv
<1>5. PendingUndo[h][cursor] \in UndoRecords \cup {NoEntry}
  BY <1>2, <1>4, Zenon DEF UndoMaps, TxsUndo
<1>6. \A i \in Heights, u \in Txns : PendingUndo[i][u] # NoEntry => i < h \/ (i = h /\ u <= cursor)
  <2> SUFFICES ASSUME NEW i \in Heights, NEW u \in Txns, PendingUndo[i][u] # NoEntry
               PROVE  i < h \/ (i = h /\ u <= cursor)
    BY Zenon
  <2>1. i <= h
    BY <1>1, Zenon DEF Inv, ViewOK
  <2>2. i = h => ~(u > cursor)
    BY <1>1, Zenon DEF PendingUndo
  <2> QED BY <1>2, <2>1, <2>2 DEF Txns, Heights
<1>7. ASSUME mnview' \in Views, View'.blocksUndo = View.blocksUndo
      PROVE  TypeOK' /\ PendingUndo' = [PendingUndo EXCEPT ![h] = [@ EXCEPT ![cursor] = NoEntry]]
  <2>1. TypeOK'
    BY <1>1, <1>2, <1>7, Zenon DEF Inv, TypeOK
  <2>2. PendingUndo' \in UndoMaps
    BY <2>1, PendingUndoType, Zenon
  <2>3. \A i \in Heights, u \in Txns :
          PendingUndo'[i][u] = IF i = h /\ u = cursor THEN NoEntry ELSE PendingUndo[i][u]
    BY <1>1, <1>2, <1>7 DEF PendingUndo, GetBlockUndo, Txns
  <2> QED BY <1>2, <1>4, <2>1, <2>2, <2>3 DEF UndoMaps, TxsUndo
<1>8. mnview'.lastHeight = mnview.lastHeight => PhaseOK' /\ BaseOK'
  BY <1>1, Zenon DEF Inv, PhaseOK, BaseOK, BaseUndo
<1> QED BY <1>1, <1>2, <1>3, <1>5, <1>6, <1>7, <1>8, Zenon

\* A record of a creation: the node and its two index entries are deleted.
LEMMA UndoCreateStep ==
    ASSUME Inv, UndoTx, NEW id \in Ids, PendingUndo[Len(chain)][cursor] = CreateRecord(id)
    PROVE  Inv'
<1> DEFINE h == Len(chain)
           node == View.allNodes[id]
           c0 == SetNode(mnview, id, EmptyNode)
           c1 == SetIndex(c0, OwnerOf[id], OperatorOf[id], NullId)
<1>1. /\ View.allNodes \in NodeMaps /\ View.nodesByOwner \in IndexMaps
      /\ View.nodesByOperator \in IndexMaps /\ PendingUndo \in UndoMaps
      /\ base \in Views /\ mnview \in Views
      /\ OwnerOf[id] \in Keys /\ OperatorOf[id] \in Keys /\ EmptyNode \in CMasternode
      /\ h \in Heights /\ cursor \in Txns
  BY ViewTypes, UndoTxFacts, KeysAssumption DEF Inv, TypeOK, EmptyNode, CMasternode
<1>2. IndexOK(View.allNodes, View.nodesByOwner, View.nodesByOperator) /\ UndoOK(View.allNodes, PendingUndo)
  BY ZenonT(60) DEF Inv, ViewOK, IndexConsistent, UndoRecordsApply
<1>3. /\ IsNode(node) /\ node.creationHeight = h
      /\ node.ownerAuthAddress = OwnerOf[id] /\ node.operatorAuthAddress = OperatorOf[id]
      /\ View.nodesByOperator[OperatorOf[id]] = id
  <2>1. PendingUndo[h][cursor] # NoEntry /\ PendingUndo[h][cursor].id = id /\ PendingUndo[h][cursor].type = "create"
    BY RecordFacts, Zenon
  <2> HIDE DEF h
  <2>2. IsNode(node) /\ node.creationHeight = h
    BY <1>1, <1>2, <2>1, SMTT(60) DEF UndoOK
  <2> QED BY <1>1, <1>2, <2>2, SMTT(60) DEF IndexOK
<1>4. mnview' = c1
  <2>1. /\ GetBlockUndo(View, h)[cursor] = CreateRecord(id) /\ CreateRecord(id) # NoEntry
        /\ CreateRecord(id).type = "create" /\ CreateRecord(id).id = id
    BY UndoTxFacts, RecordFacts, ZenonT(60)
  <2> QED BY <1>3, <2>1, Zenon DEF UndoTx, UndoCreate
<1>5. /\ mnview' \in Views /\ mnview'.lastHeight = mnview.lastHeight
      /\ View'.allNodes = [View.allNodes EXCEPT ![id] = EmptyNode]
      /\ View'.nodesByOwner = [View.nodesByOwner EXCEPT ![OwnerOf[id]] = NullId]
      /\ View'.nodesByOperator = [View.nodesByOperator EXCEPT ![OperatorOf[id]] = NullId]
      /\ View'.blocksUndo = View.blocksUndo
  <2>1. View' = ApplyCache(base, c1)
    BY <1>4, UndoTxFacts, Zenon DEF View
  <2>2. NullId \in Entries
    BY Zenon DEF Entries
  <2> HIDE DEF h, node
  <2>3. Written(base, mnview, c1, id, EmptyNode, OwnerOf[id], OperatorOf[id], NullId)
    BY <1>1, <2>2, NodeAndIndexWritten
  <2> QED BY <1>4, <2>1, <2>3, ZenonT(60) DEF Written, View
<1> HIDE DEF c0, c1
<1>6. /\ TypeOK' /\ PhaseOK' /\ BaseOK'
      /\ PendingUndo' = [PendingUndo EXCEPT ![h] = [@ EXCEPT ![cursor] = NoEntry]]
  BY <1>5, UndoTxFacts, Zenon
<1>7. /\ IndexOK([View.allNodes EXCEPT ![id] = EmptyNode],
                 [View.nodesByOwner EXCEPT ![OwnerOf[id]] = NullId],
                 [View.nodesByOperator EXCEPT ![OperatorOf[id]] = NullId])
      /\ UndoOK([View.allNodes EXCEPT ![id] = EmptyNode],
                [PendingUndo EXCEPT ![h] = [@ EXCEPT ![cursor] = NoEntry]])
  <2>1. \A i \in Heights, u \in Txns : PendingUndo[i][u] # NoEntry => i < h \/ (i = h /\ u <= cursor)
    BY UndoTxFacts, Zenon
  <2>2. PendingUndo[h][cursor] = CreateRecord(id)
    BY Zenon
  <2> HIDE DEF h, node
  <2> QED BY <1>1, <1>2, <2>1, <2>2, UndoCreateKeeps, Zenon
<1>8. IndexConsistent' /\ UndoRecordsApply'
  BY <1>5, <1>6, <1>7, Zenon DEF IndexConsistent, UndoRecordsApply
<1>9. \A j \in 1 .. h : Registered(View', chain[j].minter, j)
  <2> SUFFICES ASSUME NEW j \in 1 .. h PROVE Registered(View', chain[j].minter, j)
    BY Zenon
  <2> DEFINE m == chain[j].minter
             x == View.nodesByOperator[m]
  <2>1. Registered(View, m, j)
    BY Zenon DEF Inv, ViewOK, MintersRegistered
  <2>2. m \in Keys /\ x \in Ids /\ View.allNodes[x].creationHeight < j
    BY <1>1, <2>1, ZenonT(60) DEF Registered, ExistByOperator, MasternodeOf, IndexMaps
  <2>3. x # id /\ m # OperatorOf[id]
    BY <1>1, <1>3, <2>2, SMTT(60) DEF Heights
  <2>4. View'.nodesByOperator[m] = x /\ View'.allNodes[x] = View.allNodes[x]
    BY <1>1, <1>5, <2>2, <2>3, Zenon DEF NodeMaps, IndexMaps
  <2> QED BY <2>2, <2>4, NullAssumption, Zenon DEF Registered, ExistByOperator, MasternodeOf
<1>10. ViewOK'
  <2>1. MintersRegistered'
    BY <1>9, UndoTxFacts, Zenon DEF MintersRegistered
  <2>2. \A i \in Heights, u \in Txns : PendingUndo'[i][u] # NoEntry => i <= h
    BY <1>1, <1>6, UndoTxFacts DEF UndoMaps, TxsUndo, Heights
  <2> QED BY <1>8, <2>1, <2>2, UndoTxFacts, Zenon DEF ViewOK
<1> QED BY <1>6, <1>10, Zenon DEF Inv

\* A record of a resignation: the node is enabled again.
LEMMA UndoResignStep ==
    ASSUME Inv, UndoTx, NEW id \in Ids, PendingUndo[Len(chain)][cursor] = ResignRecord(id)
    PROVE  Inv'
<1> DEFINE h == Len(chain)
           node == View.allNodes[id]
           n == [node EXCEPT !.resignHeight = NoHeight]
<1>1. /\ View.allNodes \in NodeMaps /\ View.nodesByOwner \in IndexMaps
      /\ View.nodesByOperator \in IndexMaps /\ PendingUndo \in UndoMaps
      /\ base \in Views /\ mnview \in Views /\ h \in Heights /\ cursor \in Txns
  BY ViewTypes, UndoTxFacts, ZenonT(60) DEF Inv, TypeOK
<1>2. IndexOK(View.allNodes, View.nodesByOwner, View.nodesByOperator) /\ UndoOK(View.allNodes, PendingUndo)
  BY Zenon DEF Inv, ViewOK, IndexConsistent, UndoRecordsApply
<1>3. IsNode(node)
  BY <1>1, <1>2, RecordFacts DEF UndoOK
<1>4. node \in CMasternode
  BY <1>3, ChangedNode, Zenon DEF Inv, ViewOK
<1>5. /\ n \in CMasternode /\ n.resignHeight = NoHeight /\ n.creationHeight = node.creationHeight
      /\ n.ownerAuthAddress = node.ownerAuthAddress /\ n.operatorAuthAddress = node.operatorAuthAddress
  <2> HIDE DEF node
  <2> QED BY <1>4, Zenon DEF CMasternode
<1>6. mnview' = SetNode(mnview, id, n)
  <2>1. /\ GetBlockUndo(View, h)[cursor] = ResignRecord(id) /\ ResignRecord(id) # NoEntry
        /\ ResignRecord(id).type = "resign" /\ ResignRecord(id).id = id
    BY UndoTxFacts, RecordFacts, Zenon
  <2> QED BY <2>1, Zenon DEF UndoTx, UndoResign
<1> HIDE DEF n
<1>7. IsNode(n)
  BY <1>3, <1>5, ChangedNode, Zenon DEF Inv, ViewOK
<1>8. /\ mnview' \in Views /\ mnview'.lastHeight = mnview.lastHeight
      /\ View'.allNodes = [View.allNodes EXCEPT ![id] = n]
      /\ View'.nodesByOwner = View.nodesByOwner /\ View'.nodesByOperator = View.nodesByOperator
      /\ View'.blocksUndo = View.blocksUndo
  <2>1. View' = ApplyCache(base, mnview')
    BY UndoTxFacts, Zenon DEF View
  <2> QED BY <1>1, <1>5, <1>6, <2>1, NodeWritten DEF View
<1>9. /\ TypeOK' /\ PhaseOK' /\ BaseOK'
      /\ PendingUndo' = [PendingUndo EXCEPT ![h] = [@ EXCEPT ![cursor] = NoEntry]]
  BY <1>8, UndoTxFacts, Zenon
<1>10. /\ IndexOK([View.allNodes EXCEPT ![id] = n], View.nodesByOwner, View.nodesByOperator)
       /\ UndoOK([View.allNodes EXCEPT ![id] = n],
                 [PendingUndo EXCEPT ![h] = [@ EXCEPT ![cursor] = NoEntry]])
  <2>1. PendingUndo[h][cursor] = ResignRecord(id)
    BY Zenon
  <2> HIDE DEF h
  <2> QED BY <1>1, <1>2, <1>5, <1>7, <2>1, UndoResignKeeps, Zenon
<1>11. IndexConsistent' /\ UndoRecordsApply'
  BY <1>8, <1>9, <1>10, Zenon DEF IndexConsistent, UndoRecordsApply
<1>12. ViewOK'
  <2>1. \A m, i : Registered(View, m, i) => Registered(View', m, i)
    BY <1>1, <1>5, <1>8, RegisteredKept, ZenonT(60)
  <2>2. MintersRegistered'
    BY <2>1, UndoTxFacts, Zenon DEF MintersRegistered, Inv, ViewOK
  <2>3. \A i \in Heights, u \in Txns : PendingUndo'[i][u] # NoEntry => i <= h
    BY <1>1, <1>9, UndoTxFacts DEF UndoMaps, TxsUndo, Heights
  <2> QED BY <1>11, <2>2, <2>3, UndoTxFacts, Zenon DEF ViewOK
<1> QED BY <1>9, <1>12, Zenon DEF Inv

\* OnUndoBlock handles one record, or finds none at the cursor.
LEMMA UndoTxStep == ASSUME Inv, UndoTx PROVE Inv'
<1> DEFINE h == Len(chain)
           rec == PendingUndo[h][cursor]
<1>1. CASE rec = NoEntry
  <2>1. mnview' = mnview
    BY <1>1, UndoTxFacts, Zenon DEF UndoTx
  <2>2. View' = View
    BY <2>1, UndoTxFacts, Zenon DEF View, ApplyCache
  <2>3. PendingUndo \in UndoMaps /\ h \in Heights /\ cursor \in Txns
    BY ViewTypes, UndoTxFacts, Zenon DEF Inv
  <2>4. [PendingUndo EXCEPT ![h] = [@ EXCEPT ![cursor] = NoEntry]] = PendingUndo
    BY <1>1, <2>3, Zenon DEF UndoMaps, TxsUndo
  <2>5. TypeOK' /\ PhaseOK' /\ BaseOK' /\ PendingUndo' = PendingUndo
    BY <2>1, <2>2, <2>4, UndoTxFacts, Zenon DEF Inv, TypeOK
  <2>6. ViewOK'
    BY <2>2, <2>5, UndoTxFacts, Zenon DEF ViewOK, Inv, IndexConsistent, UndoRecordsApply, MintersRegistered
  <2> QED BY <2>5, <2>6, Zenon DEF Inv
<1>2. CASE rec # NoEntry
  <2>1. rec \in UndoRecords
    BY <1>2, UndoTxFacts, Zenon
  <2>2. rec.id \in Ids /\ (rec = CreateRecord(rec.id) \/ rec = ResignRecord(rec.id))
    <3> HIDE DEF rec
    <3> QED BY <2>1, Zenon DEF UndoRecords, CreateRecord, ResignRecord
  <2> QED BY <2>2, UndoCreateStep, UndoResignStep, Zenon
<1> QED BY <1>1, <1>2, Zenon

-----------------------------------------------------------------------------
(* The minter's counter and the flush of the cache end a block.            *)

\* The minter of a block is found through the index, and adding to its counter keeps the node.
LEMMA MinterFacts ==
    ASSUME Inv, NEW m, NEW j, Registered(View, m, j), NEW k \in {-1, 1}
    PROVE  LET id == MasternodeOf(View, m)
               node == View.allNodes[id]
               n == [node EXCEPT !.mintedBlocks = @ + k]
           IN  /\ id \in Ids /\ IsNode(node) /\ n \in CMasternode
               /\ n.ownerAuthAddress = node.ownerAuthAddress
               /\ n.operatorAuthAddress = node.operatorAuthAddress
               /\ n.creationHeight = node.creationHeight /\ n.resignHeight = node.resignHeight
<1> DEFINE id == MasternodeOf(View, m)
           node == View.allNodes[id]
           n == [node EXCEPT !.mintedBlocks = @ + k]
<1>1. id \in Ids /\ m \in Keys
  BY ViewTypes, Zenon DEF Inv, Registered, ExistByOperator, MasternodeOf, IndexMaps
<1>2. IsNode(node)
  BY <1>1, Zenon DEF Inv, ViewOK, IndexConsistent, IndexOK, MasternodeOf
<1>3. node \in CMasternode
  BY <1>1, <1>2, ChangedNode, Zenon DEF Inv, ViewOK
<1>4. /\ n \in CMasternode /\ n.ownerAuthAddress = node.ownerAuthAddress
      /\ n.operatorAuthAddress = node.operatorAuthAddress
      /\ n.creationHeight = node.creationHeight /\ n.resignHeight = node.resignHeight
  <2> HIDE DEF node
  <2> QED BY <1>3 DEF CMasternode
<1> QED BY <1>1, <1>2, <1>4, Zenon

\* ConnectTip: the counter is incremented and the cache flushed.
LEMMA ConnectTipDoneStep == ASSUME Inv, ConnectTipDone PROVE Inv'
<1> DEFINE id == MasternodeOf(View, block.minter)
           n == [View.allNodes[id] EXCEPT !.mintedBlocks = @ + 1]
           c0 == SetNode(mnview, id, n)
           c == [c0 EXCEPT !.lastHeight = nHeight]
           w == ApplyCache(base, c0)
<1>1. /\ pc = "connect" /\ pc' = "idle" /\ base' = ApplyCache(base, c) /\ mnview' = EmptyCache(nHeight)
      /\ chain' = Append(chain, block) /\ block' = NoBlock /\ touched' = {}
      /\ cursor' = cursor /\ running' = running /\ criminals' \subseteq criminals
  BY Zenon DEF ConnectTipDone, IncrementMintedBy
<1>2. /\ Registered(View, block.minter, nHeight)
      /\ \A j \in 1 .. Len(chain) : Registered(View, chain[j].minter, j)
  BY <1>1, Zenon DEF Inv, ViewOK, MintersRegistered
<1>3. /\ c0 \in Views /\ IndexOK(w.allNodes, w.nodesByOwner, w.nodesByOperator)
      /\ UndoOK(w.allNodes, PendingUndo) /\ w.blocksUndo = View.blocksUndo
      /\ \A m, h : Registered(View, m, h) => Registered(w, m, h)
  <2>1. /\ id \in Ids /\ IsNode(View.allNodes[id]) /\ n \in CMasternode
        /\ n.ownerAuthAddress = View.allNodes[id].ownerAuthAddress
        /\ n.operatorAuthAddress = View.allNodes[id].operatorAuthAddress
        /\ n.creationHeight = View.allNodes[id].creationHeight
        /\ n.resignHeight = View.allNodes[id].resignHeight
    BY <1>2, MinterFacts, ZenonT(60)
  <2> HIDE DEF n, id
  <2> QED BY <2>1, UpdateView, Zenon
<1> HIDE DEF n, id, c0
<1>4. nHeight \in Heights /\ nHeight = Len(chain) + 1 /\ Len(chain) \in Nat
  BY <1>1, BoundAssumption DEF Inv, PhaseOK, TypeOK, nHeight, Heights
<1>5. /\ c \in Views /\ c.allNodes = c0.allNodes /\ c.nodesByOwner = c0.nodesByOwner
      /\ c.nodesByOperator = c0.nodesByOperator /\ c.blocksUndo = c0.blocksUndo
      /\ c.lastHeight = nHeight
  BY <1>3, <1>4 DEF Views
<1> HIDE DEF c
<1>6. /\ base' \in Views /\ base'.allNodes = w.allNodes /\ base'.nodesByOwner = w.nodesByOwner
      /\ base'.nodesByOperator = w.nodesByOperator /\ base'.blocksUndo = w.blocksUndo
      /\ base'.lastHeight = nHeight
  <2>1. base \in Views
    BY Zenon DEF Inv, TypeOK
  <2> QED BY <1>1, <1>5, <2>1, ApplyCacheType, Zenon DEF ApplyCache
<1>7. /\ chain \in Seq(Blocks) /\ block \in Blocks /\ Len(chain') = nHeight /\ chain' \in Seq(Blocks)
      /\ \A j \in 1 .. Len(chain) : chain'[j] = chain[j]
      /\ chain'[nHeight] = block
  BY <1>1, <1>4 DEF Inv, TypeOK
<1>8. TypeOK'
  <2>1. block' \in Blocks /\ Len(block'.txs) = 0
    BY <1>1 DEF NoBlock, Blocks
  <2>2. mnview' \in Views
    BY <1>1, <1>4, EmptyCacheType, SMTT(60)
  <2> QED BY <1>1, <1>4, <1>6, <1>7, <2>1, <2>2, BoundAssumption DEF Inv, TypeOK, Heights
<1>9. PhaseOK'
  <2>1. \A j \in 1 .. Len(chain') : Len(chain'[j].txs) <= MaxTxs
    <3>1. /\ \A j \in 1 .. Len(chain) : Len(chain[j].txs) <= MaxTxs
          /\ Len(block.txs) <= MaxTxs
      BY <1>7, Zenon DEF Inv, PhaseOK, TypeOK
    <3> QED BY <1>4, <1>7, <3>1, HeightsBelow, Zenon
  <2> QED BY <1>1, <1>6, <1>7, <2>1, Zenon DEF PhaseOK, EmptyCache
<1>10. BaseUndo' = PendingUndo
  <2>1. \A h \in Heights : GetBlockUndo(View, h) \in TxsUndo
    BY ViewTypes, EmptyUndoType, Zenon DEF Inv, Views, GetBlockUndo
  <2> QED BY <1>1, <1>3, <1>6, <2>1 DEF PendingUndo, BaseUndo, GetBlockUndo, TxsUndo
<1>11. BaseOK'
  <2>1. \A h \in Heights, t \in Txns : h > nHeight => PendingUndo[h][t] = NoEntry
    BY <1>4, SMTT(60) DEF Inv, ViewOK, Heights
  <2>2. \A m, h : Registered(w, m, h) => Registered(base', m, h)
    BY <1>6, SMTT(60) DEF Registered, ExistByOperator, MasternodeOf
  <2>3. \A j \in 1 .. Len(chain') : Registered(base', chain'[j].minter, j)
    BY <1>2, <1>3, <1>4, <1>7, <2>2
  <2> QED BY <1>3, <1>6, <1>7, <1>10, <2>1, <2>3, Zenon DEF BaseOK
<1> QED BY <1>1, <1>8, <1>9, <1>11, IdleStep, Zenon

\* DisconnectTip: the undo entry is emptied, the counter decremented and the cache flushed.
LEMMA DisconnectTipDoneStep == ASSUME Inv, DisconnectTipDone PROVE Inv'
<1> DEFINE h == Len(chain)
           id == MasternodeOf(View, block.minter)
           n == [View.allNodes[id] EXCEPT !.mintedBlocks = @ - 1]
           c0 == SetNode(mnview, id, n)
           c1 == IF GetBlockUndo(View, h) = EmptyUndo THEN mnview
                 ELSE [mnview EXCEPT !.blocksUndo[h] = EmptyUndo]
           c == [SetNode(c1, id, n) EXCEPT !.lastHeight = h - 1]
           w == ApplyCache(base, c0)
<1>1. /\ pc = "undo" /\ cursor = 0 /\ pc' = "idle" /\ base' = ApplyCache(base, c)
      /\ mnview' = EmptyCache(h - 1) /\ chain' = [j \in 1 .. h - 1 |-> chain[j]] /\ block' = NoBlock
      /\ touched' = {} /\ cursor' = cursor /\ running' = running
      /\ criminals' = criminals \cup touched
  BY Zenon DEF DisconnectTipDone, DecrementMintedBy
<1>2. /\ h \in Heights /\ h > 0 /\ h - 1 \in Nat /\ chain \in Seq(Blocks) /\ block = chain[h]
      /\ base \in Views /\ mnview \in Views
  BY <1>1, BoundAssumption DEF Inv, PhaseOK, TypeOK, Heights
<1>3. \A j \in 1 .. h : Registered(View, chain[j].minter, j)
  BY Zenon DEF Inv, ViewOK, MintersRegistered
<1>4. /\ id \in Ids /\ IsNode(View.allNodes[id]) /\ n \in CMasternode
      /\ n.ownerAuthAddress = View.allNodes[id].ownerAuthAddress
      /\ n.operatorAuthAddress = View.allNodes[id].operatorAuthAddress
      /\ n.creationHeight = View.allNodes[id].creationHeight
      /\ n.resignHeight = View.allNodes[id].resignHeight
  <2>1. Registered(View, block.minter, h)
    BY <1>2, <1>3 DEF Heights
  <2>2. View.allNodes[id].mintedBlocks - 1 = View.allNodes[id].mintedBlocks + (-1)
    <3>1. View.allNodes[id] \in CMasternode
      BY <2>1, MinterFacts, ViewTypes, ZenonT(60) DEF Inv, NodeMaps, IsNode
    <3> QED BY <3>1, Zenon DEF CMasternode
  <2>3. n = [View.allNodes[id] EXCEPT !.mintedBlocks = @ + (-1)]
    BY <2>2, Zenon
  <2> HIDE DEF n
  <2> QED BY <2>1, <2>3, MinterFacts, ZenonT(60)
<1> HIDE DEF n, id
<1>5. /\ c0 \in Views /\ IndexOK(w.allNodes, w.nodesByOwner, w.nodesByOperator)
      /\ UndoOK(w.allNodes, PendingUndo)
      /\ \A m, i : Registered(View, m, i) => Registered(w, m, i)
  BY <1>4, UpdateView, Zenon
<1>6. c1 \in Views /\ c1.allNodes = mnview.allNodes /\ c1.nodesByOwner = mnview.nodesByOwner
      /\ c1.nodesByOperator = mnview.nodesByOperator
      /\ c1.blocksUndo = IF GetBlockUndo(View, h) = EmptyUndo THEN mnview.blocksUndo
                         ELSE [mnview.blocksUndo EXCEPT ![h] = EmptyUndo]
  BY <1>2, EmptyUndoType, ZenonT(60) DEF Views
<1> HIDE DEF c1
<1>7. /\ c \in Views /\ c.allNodes = c0.allNodes /\ c.nodesByOwner = c0.nodesByOwner
      /\ c.nodesByOperator = c0.nodesByOperator /\ c.blocksUndo = c1.blocksUndo
      /\ c.lastHeight = h - 1
  <2> DEFINE d == SetNode(c1, id, n)
  <2>1. d.allNodes = [mnview.allNodes EXCEPT ![id] = n] /\ c0.allNodes = [mnview.allNodes EXCEPT ![id] = n]
    BY <1>2, <1>4, <1>6, Zenon DEF Views, SetNode
  <2>2. /\ d \in Views /\ d.nodesByOwner = c0.nodesByOwner /\ d.nodesByOperator = c0.nodesByOperator
        /\ d.blocksUndo = c1.blocksUndo
    BY <1>2, <1>4, <1>6, ZenonT(60) DEF Views, SetNode
  <2> HIDE DEF d, c0
  <2>3. c = [d EXCEPT !.lastHeight = h - 1]
    BY Zenon DEF d
  <2> QED BY <1>2, <2>1, <2>2, <2>3, Zenon DEF Views
<1> HIDE DEF c, c0
<1>8. /\ base' \in Views /\ base'.allNodes = w.allNodes /\ base'.nodesByOwner = w.nodesByOwner
      /\ base'.nodesByOperator = w.nodesByOperator /\ base'.lastHeight = h - 1
      /\ base'.blocksUndo = Overlay(base.blocksUndo, c1.blocksUndo)
  BY <1>1, <1>2, <1>7, ApplyCacheType, Zenon DEF ApplyCache
<1>9. /\ Len(chain') = h - 1 /\ chain' \in Seq(Blocks)
      /\ \A j \in 1 .. h - 1 : chain'[j] = chain[j]
  BY <1>1, <1>2
<1>10. TypeOK'
  <2>1. block' \in Blocks /\ Len(block'.txs) = 0
    BY <1>1 DEF NoBlock, Blocks
  <2>2. mnview' \in Views
    BY <1>1, <1>2, EmptyCacheType, Zenon
  <2> QED BY <1>1, <1>2, <1>8, <1>9, <2>1, <2>2, BoundAssumption DEF Inv, TypeOK, Heights
<1>11. PhaseOK'
  <2>1. \A j \in 1 .. Len(chain') : Len(chain'[j].txs) <= MaxTxs
    BY <1>2, <1>9 DEF Inv, PhaseOK
  <2> QED BY <1>1, <1>8, <1>9, <2>1, ZenonT(60) DEF PhaseOK, EmptyCache
<1>12. BaseUndo' = PendingUndo
  <2>1. PendingUndo \in UndoMaps
    BY ViewTypes, Zenon DEF Inv
  <2>2. EmptyUndo # NoEntry /\ \A t \in Txns : EmptyUndo[t] = NoEntry
    BY EmptyUndoType, NullAssumption, Zenon DEF EmptyUndo
  <2>3. \A i \in Heights : GetBlockUndo(base', i) = IF i = h THEN EmptyUndo ELSE GetBlockUndo(View, i)
    <3>1. /\ base.blocksUndo \in [Heights -> TxsUndo \cup {NoEntry}]
          /\ mnview.blocksUndo \in [Heights -> TxsUndo \cup {NoEntry}]
          /\ View.blocksUndo = Overlay(base.blocksUndo, mnview.blocksUndo)
      BY <1>2, Zenon DEF Views, View, ApplyCache
    <3>2. CASE GetBlockUndo(View, h) = EmptyUndo
      <4>1. base'.blocksUndo = View.blocksUndo
        BY <1>6, <1>8, <3>1, <3>2, Zenon
      <4> QED BY <3>2, <4>1, Zenon DEF GetBlockUndo
    <3>3. CASE GetBlockUndo(View, h) # EmptyUndo
      <4>1. \A i \in Heights : base'.blocksUndo[i] = IF i = h THEN EmptyUndo ELSE View.blocksUndo[i]
        BY <1>2, <1>6, <1>8, <2>2, <3>1, <3>3, SMTT(60) DEF Overlay
      <4> QED BY <2>2, <4>1, SMTT(60) DEF GetBlockUndo
    <3> QED BY <3>2, <3>3, Zenon
  <2>4. \A i \in Heights : GetBlockUndo(base', i) \in TxsUndo
    BY <1>8, EmptyUndoType, Zenon DEF GetBlockUndo, Views
  <2>5. \A i \in Heights, t \in Txns :
          PendingUndo[i][t] = IF i = h THEN NoEntry ELSE GetBlockUndo(View, i)[t]
    BY <1>1 DEF PendingUndo, Txns
  <2>6. \A i \in Heights, t \in Txns : GetBlockUndo(base', i)[t] = PendingUndo[i][t]
    BY <2>2, <2>3, <2>5, Zenon
  <2> QED BY <2>1, <2>4, <2>6 DEF BaseUndo, UndoMaps, TxsUndo
<1>13. BaseOK'
  <2>1. \A i \in Heights, t \in Txns : i > h - 1 => PendingUndo[i][t] = NoEntry
    BY <1>1, <1>2 DEF Inv, ViewOK, Heights, PendingUndo, Txns
  <2>2. \A m, i : Registered(w, m, i) => Registered(base', m, i)
    BY <1>8, ZenonT(60) DEF Registered, ExistByOperator, MasternodeOf
  <2>3. \A j \in 1 .. Len(chain') : Registered(base', chain'[j].minter, j)
    BY <1>2, <1>3, <1>5, <1>9, <2>2
  <2> QED BY <1>5, <1>8, <1>9, <1>12, <2>1, <2>3, Zenon DEF BaseOK
<1> QED BY <1>1, <1>10, <1>11, <1>13, IdleStep, Zenon

-----------------------------------------------------------------------------
(* Every step keeps the invariant.                                         *)

\* Every step of the validation thread keeps the inductive invariant.
LEMMA NextInv == Inv /\ [Next]_vars => Inv'
<1> SUFFICES ASSUME Inv, [Next]_vars PROVE Inv'
  BY Zenon
<1>1. ASSUME NEW minter \in Keys, NEW minted \in Heights, ConnectBlock(minter, minted) PROVE Inv'
  BY <1>1, ConnectBlockStep, Zenon
<1>2. ASSUME NEW tx \in TxPool,
             ConnectCreate(tx) \/ ConnectResign(tx) \/ ConnectCriminal(tx) \/ ConnectSpend(tx)
      PROVE  Inv'
  BY <1>2, TxStep, Zenon
<1>3. CASE ConnectBlockFails
  BY <1>3, ConnectBlockFailsStep, Zenon
<1>4. CASE ConnectTipDone
  BY <1>4, ConnectTipDoneStep, Zenon
<1>5. CASE DisconnectBlock
  BY <1>5, DisconnectBlockStep, Zenon
<1>6. CASE DisconnectTx
  BY <1>6, DisconnectTxStep, Zenon
<1>7. CASE OnUndoBlock
  BY <1>7, OnUndoBlockStep, Zenon
<1>8. CASE UndoTx
  BY <1>8, UndoTxStep, Zenon
<1>9. CASE DisconnectTipDone
  BY <1>9, DisconnectTipDoneStep, Zenon
<1>10. ASSUME NEW minter \in Keys, NEW height \in Heights, AddCriminalProof(minter, height) PROVE Inv'
  <2>1. criminals' \subseteq Ids
    BY <1>10, Zenon DEF AddCriminalProof, ExistByOperator, MasternodeOf, Inv, TypeOK, Views
  <2> QED BY <1>10, <2>1, OtherStep, Zenon DEF AddCriminalProof, Inv, TypeOK
<1>11. CASE AssertFails
  BY <1>11, OtherStep, ZenonT(60) DEF AssertFails, Inv, TypeOK
<1>12. CASE UNCHANGED vars
  BY <1>12, OtherStep, Zenon DEF vars, Inv, TypeOK
<1> QED BY <1>1, <1>2, <1>3, <1>4, <1>5, <1>6, <1>7, <1>8, <1>9, <1>10, <1>11, <1>12, Zenon DEF Next

-----------------------------------------------------------------------------
(* What each step does to the nodes seen through the cache.                *)

Changed(id, n) == View'.allNodes = [View.allNodes EXCEPT ![id] = n]

\* A write to the node map of the cache shows as the same write to what is seen.
LEMMA NodeSeen ==
    ASSUME TypeOK, base' = base, NEW id \in Ids, NEW n \in CMasternode,
           mnview'.allNodes = [mnview.allNodes EXCEPT ![id] = n]
    PROVE  Changed(id, n)
<1>1. base.allNodes \in NodeMaps /\ mnview.allNodes \in NodeMaps
  BY Zenon DEF TypeOK, Views, NodeMaps
<1>2. n # NoEntry
  BY NullAssumption, Zenon
<1>3. Overlay(base.allNodes, [mnview.allNodes EXCEPT ![id] = n])
        = [Overlay(base.allNodes, mnview.allNodes) EXCEPT ![id] = n]
  BY <1>1, <1>2, ZenonT(60) DEF Overlay, NodeMaps
<1> QED BY <1>3, Zenon DEF Changed, View, ApplyCache

\* OnMasternodeCreate puts a new node where there was none, under a new operator.
LEMMA CreateEffect ==
    ASSUME Inv, NEW tx \in TxPool, ConnectCreate(tx)
    PROVE  \/ View'.allNodes = View.allNodes
           \/ /\ ~IsNode(View.allNodes[tx.id]) /\ ~ExistByOperator(View, OperatorOf[tx.id])
              /\ FromTx(tx.id, nHeight) \in CMasternode /\ Changed(tx.id, FromTx(tx.id, nHeight))
<1> DEFINE id == tx.id
           n  == FromTx(id, nHeight)
<1>1. /\ base' = base /\ TypeOK /\ id \in Ids /\ nHeight \in Heights
  BY ConnectTxFacts, Zenon DEF ConnectCreate, Inv
<1>2. CASE mnview' = mnview
  BY <1>1, <1>2, Zenon DEF View, ApplyCache
<1>3. CASE mnview' # mnview
  <2>1. /\ ~IsNode(View.allNodes[id]) /\ ~ExistByOperator(View, OperatorOf[id])
        /\ mnview' = OnMasternodeCreate(mnview, id, nHeight, txn)
    BY <1>3, Zenon DEF ConnectCreate, ExistMasternode
  <2>2. n \in CMasternode
    BY <1>1, FromTxFacts, Zenon
  <2> HIDE DEF n
  <2>3. mnview'.allNodes = [mnview.allNodes EXCEPT ![id] = n]
    <3>1. mnview \in Views
      BY <1>1, Zenon DEF TypeOK
    <3> QED BY <2>1, <3>1, Zenon DEF OnMasternodeCreate, AddUndo, SetIndex, SetNode, Views, n
  <2>4. Changed(id, n)
    BY <1>1, <2>2, <2>3, NodeSeen, Zenon
  <2> QED BY <2>1, <2>2, <2>4, Zenon DEF n
<1> QED BY <1>2, <1>3, Zenon

\* OnMasternodeResign sets the height of an active node.
LEMMA ResignEffect ==
    ASSUME Inv, NEW tx \in TxPool, ConnectResign(tx)
    PROVE  \/ View'.allNodes = View.allNodes
           \/ LET node == View.allNodes[tx.id]
                  n    == [node EXCEPT !.resignHeight = nHeight]
              IN  /\ IsNode(node) /\ node \in CMasternode /\ IsNode(n) /\ n \in CMasternode
                  /\ node.resignHeight = NoHeight /\ node.banHeight = NoHeight
                  /\ Changed(tx.id, n)
<1> DEFINE id == tx.id
           node == View.allNodes[id]
           n  == [node EXCEPT !.resignHeight = nHeight]
<1>1. /\ base' = base /\ TypeOK /\ id \in Ids /\ nHeight \in Nat
  BY ConnectTxFacts, BoundAssumption DEF ConnectResign, Inv, Heights
<1>2. CASE mnview' = mnview
  BY <1>1, <1>2, Zenon DEF View, ApplyCache
<1>3. CASE mnview' # mnview
  <2>1. /\ IsNode(node) /\ GetState(node, nHeight) \in {"PRE_ENABLED", "ENABLED"}
        /\ mnview' = OnMasternodeResign(mnview, node, id, nHeight, txn)
    BY <1>3, Zenon DEF ConnectResign, ExistMasternode
  <2>2. node \in CMasternode /\ \A x \in CMasternode : x.ownerAuthAddress = node.ownerAuthAddress => IsNode(x)
    BY <1>1, <2>1, ChangedNode, Zenon DEF Inv, ViewOK
  <2>3. node.resignHeight = NoHeight /\ node.banHeight = NoHeight
    <3> HIDE DEF node
    <3> QED BY <2>1, Zenon DEF GetState
  <2>4. n \in CMasternode /\ n.ownerAuthAddress = node.ownerAuthAddress
    <3> HIDE DEF node
    <3> QED BY <1>1, <2>2, Zenon DEF CMasternode
  <2>5. IsNode(n)
    <3> HIDE DEF n, node
    <3> QED BY <2>2, <2>4, Zenon
  <2>6. mnview'.allNodes = [mnview.allNodes EXCEPT ![id] = n]
    <3>1. mnview \in Views
      BY <1>1, Zenon DEF TypeOK
    <3> QED BY <2>1, <3>1, Zenon DEF OnMasternodeResign, AddUndo, SetNode, Views
  <2>7. Changed(id, n)
    <3> HIDE DEF n
    <3> QED BY <1>1, <2>4, <2>6, NodeSeen, Zenon
  <2> QED BY <2>1, <2>2, <2>3, <2>4, <2>5, <2>7, Zenon
<1> QED BY <1>2, <1>3, Zenon

\* BanCriminal marks a node that is not banned yet.
LEMMA CriminalEffect ==
    ASSUME Inv, NEW tx \in TxPool, ConnectCriminal(tx)
    PROVE  \/ View'.allNodes = View.allNodes /\ touched' = touched
           \/ LET node == View.allNodes[tx.id]
                  n    == [node EXCEPT !.banHeight = nHeight, !.banTx = <<nHeight, tx.id>>]
              IN  /\ IsNode(node) /\ node \in CMasternode /\ IsNode(n) /\ n \in CMasternode
                  /\ node.banTx = NullTx /\ touched' = touched \cup {tx.id}
                  /\ Changed(tx.id, n)
<1> DEFINE id == tx.id
           node == View.allNodes[id]
           n  == [node EXCEPT !.banHeight = nHeight, !.banTx = <<nHeight, id>>]
           bans == tx.ok /\ ExistMasternode(View, tx.id) /\ node.banTx = NullTx
<1>1. /\ base' = base /\ TypeOK /\ id \in Ids /\ nHeight \in Nat
  BY ConnectTxFacts, BoundAssumption DEF ConnectCriminal, Inv, Heights
<1>2. CASE ~bans
  <2>1. mnview' = mnview /\ touched' = touched
    BY <1>2, Zenon DEF ConnectCriminal
  <2> QED BY <1>1, <2>1, Zenon DEF View, ApplyCache
<1>3. CASE bans
  <2>1. /\ IsNode(node) /\ node.banTx = NullTx /\ touched' = touched \cup {id}
        /\ mnview' = SetNode(mnview, id, n)
    BY <1>3, Zenon DEF ConnectCriminal, ExistMasternode, BanCriminal
  <2>2. node \in CMasternode /\ \A x \in CMasternode : x.ownerAuthAddress = node.ownerAuthAddress => IsNode(x)
    BY <1>1, <2>1, ChangedNode, Zenon DEF Inv, ViewOK
  <2>4. n \in CMasternode /\ n.ownerAuthAddress = node.ownerAuthAddress
    <3> HIDE DEF node
    <3> QED BY <1>1, <2>2, ZenonT(60) DEF CMasternode, BanTxs
  <2>5. IsNode(n)
    <3> HIDE DEF n, node
    <3> QED BY <2>2, <2>4, Zenon
  <2>6. mnview'.allNodes = [mnview.allNodes EXCEPT ![id] = n]
    <3>1. mnview \in Views
      BY <1>1, Zenon DEF TypeOK
    <3> HIDE DEF n
    <3> QED BY <2>1, <3>1, ZenonT(60) DEF SetNode, Views
  <2>7. Changed(id, n)
    <3> HIDE DEF n
    <3> QED BY <1>1, <2>4, <2>6, NodeSeen, Zenon
  <2> QED BY <2>1, <2>2, <2>4, <2>5, <2>7, Zenon
<1> QED BY <1>2, <1>3, Zenon

\* DisconnectBlock lifts the ban that this very transaction had set.
LEMMA UnbanEffect ==
    ASSUME Inv, DisconnectTx
    PROVE  LET tx   == block.txs[cursor]
               node == View.allNodes[tx.id]
               n    == [node EXCEPT !.banHeight = NoHeight, !.banTx = NullTx]
           IN  /\ tx \in Txs /\ cursor \in 1 .. Len(block.txs)
               /\ \/ /\ View'.allNodes = View.allNodes /\ touched' = touched
                     /\ ~(tx.type = "criminal" /\ IsNode(node) /\ node.banTx = <<Len(chain), tx.id>>)
                  \/ /\ IsNode(node) /\ node \in CMasternode /\ IsNode(n) /\ n \in CMasternode
                     /\ tx.type = "criminal" /\ node.banTx = <<Len(chain), tx.id>>
                     /\ touched' = touched \cup {tx.id} /\ Changed(tx.id, n)
<1> DEFINE tx   == block.txs[cursor]
           id   == tx.id
           node == View.allNodes[id]
           n    == [node EXCEPT !.banHeight = NoHeight, !.banTx = NullTx]
           unbans == tx.type = "criminal" /\ ExistMasternode(View, tx.id) /\ node.banTx = <<Len(chain), tx.id>>
<1>1. base' = base /\ TypeOK /\ pc = "disconnect"
  BY ZenonT(60) DEF DisconnectTx, Inv
<1>2. block.txs \in Seq(Txs) /\ cursor \in 1 .. Len(block.txs)
  <2>0. cursor > 0 /\ PhaseOK /\ cursor \in 0 .. MaxTxs /\ block \in Blocks
    BY <1>1, Zenon DEF DisconnectTx, Inv, TypeOK
  <2>1. cursor \in Nat /\ cursor > 0 /\ cursor <= Len(block.txs) /\ block \in Blocks
    BY <1>1, <2>0, BoundAssumption DEF PhaseOK
  <2>2. block.txs \in Seq(Txs)
    BY <2>1, Zenon DEF Blocks
  <2> QED BY <2>1, <2>2
<1>3. tx \in Txs
  BY <1>2
<1>4. id \in Ids
  BY <1>3 DEF Txs
<1> HIDE DEF tx
<1>5. CASE ~unbans
  <2>1. mnview' = mnview /\ touched' = touched
    BY <1>5, ZenonT(60) DEF DisconnectTx, tx
  <2>2. View'.allNodes = View.allNodes
    BY <1>1, <2>1 DEF View, ApplyCache
  <2> QED BY <1>2, <1>3, <1>5, <2>1, <2>2, ZenonT(60) DEF ExistMasternode, tx
<1>6. CASE unbans
  <2>1. IsNode(node) /\ touched' = touched \cup {id} /\ mnview' = SetNode(mnview, id, n)
    BY <1>6, ZenonT(60) DEF DisconnectTx, ExistMasternode, UnbanCriminal, tx
  <2>2. node \in CMasternode /\ \A x \in CMasternode : x.ownerAuthAddress = node.ownerAuthAddress => IsNode(x)
    BY <1>4, <2>1, ChangedNode, Zenon DEF Inv, ViewOK
  <2>4. n \in CMasternode /\ n.ownerAuthAddress = node.ownerAuthAddress
    <3> HIDE DEF node
    <3> QED BY <2>2, ZenonT(60) DEF CMasternode
  <2>5. IsNode(n)
    <3> HIDE DEF n, node
    <3> QED BY <2>2, <2>4, Zenon
  <2>6. mnview'.allNodes = [mnview.allNodes EXCEPT ![id] = n]
    <3>1. mnview \in Views
      BY <1>1, Zenon DEF TypeOK
    <3> HIDE DEF n
    <3> QED BY <2>1, <3>1, Zenon DEF SetNode, Views
  <2>7. Changed(id, n)
    <3> HIDE DEF n
    <3> QED BY <1>1, <1>4, <2>4, <2>6, NodeSeen, Zenon
  <2> QED BY <1>2, <1>3, <1>6, <2>1, <2>2, <2>4, <2>5, <2>7, ZenonT(60) DEF tx
<1> QED BY <1>5, <1>6, ZenonT(60)

\* OnUndoBlock deletes a node that this block created, or takes back a resignation of this block.
LEMMA UndoEffect ==
    ASSUME Inv, UndoTx
    PROVE  \/ View'.allNodes = View.allNodes
           \/ \E id \in Ids : /\ IsNode(View.allNodes[id]) /\ View.allNodes[id].creationHeight = Len(chain)
                              /\ EmptyNode \in CMasternode /\ Changed(id, EmptyNode)
           \/ \E id \in Ids :
                 LET node == View.allNodes[id]
                     n    == [node EXCEPT !.resignHeight = NoHeight]
                 IN  /\ IsNode(node) /\ node \in CMasternode /\ IsNode(n) /\ n \in CMasternode
                     /\ node.resignHeight = Len(chain) /\ Changed(id, n)
<1> DEFINE h == Len(chain)
           rec == PendingUndo[h][cursor]
<1>1. /\ base' = base /\ h \in Heights /\ cursor \in Txns /\ TypeOK /\ mnview \in Views
      /\ GetBlockUndo(View, h)[cursor] = rec /\ rec \in UndoRecords \cup {NoEntry}
  BY UndoTxFacts, Zenon DEF Inv, TypeOK
<1>2. UndoOK(View.allNodes, PendingUndo) /\ IndexOK(View.allNodes, View.nodesByOwner, View.nodesByOperator)
  BY Zenon DEF Inv, ViewOK, UndoRecordsApply, IndexConsistent
<1>3. CASE rec = NoEntry
  <2>1. mnview' = mnview
    BY <1>1, <1>3, Zenon DEF UndoTx
  <2> QED BY <1>1, <2>1, Zenon DEF View, ApplyCache
<1>4. CASE rec # NoEntry
  <2> DEFINE id == rec.id
             node == View.allNodes[id]
  <2>1. id \in Ids /\ rec.type \in {"create", "resign"}
    BY <1>1, <1>4, Zenon DEF UndoRecords
  <2>2. /\ IsNode(node) /\ (rec.type = "create" => node.creationHeight = h)
        /\ (rec.type = "resign" => node.resignHeight = h)
    BY <1>1, <1>2, <1>4, Zenon DEF UndoOK
  <2>3. node \in CMasternode /\ \A x \in CMasternode : x.ownerAuthAddress = node.ownerAuthAddress => IsNode(x)
    BY <2>1, <2>2, ChangedNode, Zenon DEF Inv, ViewOK
  <2>4. CASE rec.type = "create"
    <3>1. mnview' = UndoCreate(mnview, node, id)
      BY <1>1, <1>4, <2>4, Zenon DEF UndoTx
    <3>2. EmptyNode \in CMasternode
      BY DEF EmptyNode, CMasternode
    <3>3. mnview'.allNodes = [mnview.allNodes EXCEPT ![id] = EmptyNode]
      <4> HIDE DEF rec, id, node
      <4> QED BY <1>1, <3>1, Zenon DEF UndoCreate, SetIndex, SetNode, Views
    <3>4. Changed(id, EmptyNode)
      <4> HIDE DEF rec, id
      <4> QED BY <1>1, <2>1, <3>2, <3>3, NodeSeen
    <3> QED BY <2>1, <2>2, <2>4, <3>2, <3>4, Zenon
  <2>5. CASE rec.type = "resign"
    <3> DEFINE n == [node EXCEPT !.resignHeight = NoHeight]
    <3>1. mnview' = SetNode(mnview, id, n)
      BY <1>1, <1>4, <2>5, Zenon DEF UndoTx, UndoResign
    <3>2. n \in CMasternode /\ n.ownerAuthAddress = node.ownerAuthAddress
      <4> HIDE DEF node
      <4> QED BY <2>3, Zenon DEF CMasternode
    <3>3. IsNode(n)
      <4> HIDE DEF n, node
      <4> QED BY <2>3, <3>2, Zenon
    <3>4. mnview'.allNodes = [mnview.allNodes EXCEPT ![id] = n]
      <4> HIDE DEF rec, id, node, n
      <4> QED BY <1>1, <3>1, Zenon DEF SetNode, Views
    <3>5. Changed(id, n)
      <4> HIDE DEF rec, id, n
      <4> QED BY <1>1, <2>1, <3>2, <3>4, NodeSeen, Zenon
    <3> QED BY <2>1, <2>2, <2>3, <2>5, <3>2, <3>3, <3>5, ZenonT(60)
  <2> QED BY <2>1, <2>4, <2>5, Zenon
<1> QED BY <1>3, <1>4, Zenon

\* Between blocks one sees the nodes of the base.
LEMMA IdleNodes == ASSUME Inv', pc' = "idle" PROVE View' = base'
BY ApplyEmptyCache, Zenon DEF Inv, TypeOK, PhaseOK, View

\* ConnectTip counts the block for its minter and flushes the cache.
LEMMA ConnectTipEffect ==
    ASSUME Inv, ConnectTipDone
    PROVE  \E id \in Ids :
              LET node == View.allNodes[id]
                  n    == [node EXCEPT !.mintedBlocks = @ + 1]
              IN  /\ IsNode(node) /\ node \in CMasternode /\ IsNode(n) /\ n \in CMasternode
                  /\ OperatorOf[id] = block.minter
                  /\ base'.allNodes = [View.allNodes EXCEPT ![id] = n] /\ View' = base'
<1> DEFINE id == MasternodeOf(View, block.minter)
           node == View.allNodes[id]
           n == [node EXCEPT !.mintedBlocks = @ + 1]
           c0 == SetNode(mnview, id, n)
<1>1. /\ Registered(View, block.minter, nHeight) /\ pc' = "idle"
      /\ base' = ApplyCache(base, [c0 EXCEPT !.lastHeight = nHeight])
  BY Zenon DEF ConnectTipDone, IncrementMintedBy, Inv, ViewOK, MintersRegistered
<1>2. /\ id \in Ids /\ IsNode(node) /\ n \in CMasternode /\ n.ownerAuthAddress = node.ownerAuthAddress
  BY <1>1, MinterFacts, ZenonT(60)
<1>3. node \in CMasternode /\ \A x \in CMasternode : x.ownerAuthAddress = node.ownerAuthAddress => IsNode(x)
  BY <1>2, ChangedNode, Zenon DEF Inv, ViewOK
<1>4. IsNode(n)
  <2> HIDE DEF n, node
  <2> QED BY <1>2, <1>3, Zenon
<1>5. OperatorOf[id] = block.minter
  BY <1>1, <1>2, ZenonT(60) DEF Inv, ViewOK, IndexConsistent, IndexOK, MasternodeOf, Registered
<1>6. base'.allNodes = [View.allNodes EXCEPT ![id] = n]
  <2>1. base \in Views /\ mnview \in Views
    BY Zenon DEF Inv, TypeOK
  <2> HIDE DEF n, id
  <2>2. c0 \in Views /\ ApplyCache(base, c0).allNodes = [View.allNodes EXCEPT ![id] = n]
    BY <1>2, <2>1, NodeWritten DEF View
  <2> HIDE DEF c0
  <2>3. base'.allNodes = ApplyCache(base, c0).allNodes
    BY <1>1, <2>2, Zenon DEF ApplyCache, Views
  <2> QED BY <2>2, <2>3, Zenon
<1>7. View' = base'
  BY <1>1, ConnectTipDoneStep, IdleNodes, Zenon
<1> QED BY <1>2, <1>3, <1>4, <1>5, <1>6, <1>7, ZenonT(60)

\* DisconnectTip takes the block out of its minter's count and flushes the cache.
LEMMA DisconnectTipEffect ==
    ASSUME Inv, DisconnectTipDone
    PROVE  \E id \in Ids :
              LET node == View.allNodes[id]
                  n    == [node EXCEPT !.mintedBlocks = @ - 1]
              IN  /\ IsNode(node) /\ node \in CMasternode /\ IsNode(n) /\ n \in CMasternode
                  /\ OperatorOf[id] = block.minter
                  /\ base'.allNodes = [View.allNodes EXCEPT ![id] = n] /\ View' = base'
<1> DEFINE h == Len(chain)
           id == MasternodeOf(View, block.minter)
           node == View.allNodes[id]
           n == [node EXCEPT !.mintedBlocks = @ - 1]
           c1 == IF GetBlockUndo(View, h) = EmptyUndo THEN mnview
                 ELSE [mnview EXCEPT !.blocksUndo[h] = EmptyUndo]
           c == [SetNode(c1, id, n) EXCEPT !.lastHeight = h - 1]
<1>1. pc = "undo" /\ pc' = "idle" /\ base' = ApplyCache(base, c)
  BY Zenon DEF DisconnectTipDone, DecrementMintedBy
<1>2. base \in Views /\ mnview \in Views /\ h \in Heights /\ h > 0 /\ block = chain[h]
  BY <1>1, BoundAssumption DEF Inv, PhaseOK, TypeOK, Heights
<1>3. Registered(View, block.minter, h)
  BY <1>2 DEF Inv, ViewOK, MintersRegistered, Heights
<1>4. id \in Ids /\ IsNode(node)
  BY <1>3, MinterFacts, ZenonT(60)
<1>5. node \in CMasternode /\ \A x \in CMasternode : x.ownerAuthAddress = node.ownerAuthAddress => IsNode(x)
  BY <1>4, ChangedNode, Zenon DEF Inv, ViewOK
<1>6. n \in CMasternode /\ n.ownerAuthAddress = node.ownerAuthAddress
  <2> HIDE DEF node
  <2> QED BY <1>5 DEF CMasternode
<1>7. IsNode(n)
  <2> HIDE DEF n, node
  <2> QED BY <1>5, <1>6, Zenon
<1>8. OperatorOf[id] = block.minter
  BY <1>3, <1>4, Zenon DEF Inv, ViewOK, IndexConsistent, IndexOK, MasternodeOf, Registered
<1>9. base'.allNodes = [View.allNodes EXCEPT ![id] = n]
  <2> HIDE DEF n, id
  <2>1. c1 \in Views /\ c1.allNodes = mnview.allNodes
    BY <1>2, EmptyUndoType, ZenonT(60) DEF Views
  <2> HIDE DEF c1
  <2>2. c.allNodes = [mnview.allNodes EXCEPT ![id] = n]
    BY <2>1, Zenon DEF SetNode, Views
  <2>3. ApplyCache(base, SetNode(mnview, id, n)).allNodes = [View.allNodes EXCEPT ![id] = n]
    BY <1>2, <1>4, <1>6, NodeWritten DEF View
  <2>4. SetNode(mnview, id, n).allNodes = [mnview.allNodes EXCEPT ![id] = n]
    BY <1>2, Zenon DEF SetNode, Views
  <2> QED BY <1>1, <2>2, <2>3, <2>4, Zenon DEF ApplyCache
<1>10. View' = base'
  BY <1>1, DisconnectTipDoneStep, IdleNodes, Zenon
<1> QED BY <1>4, <1>5, <1>6, <1>7, <1>8, <1>9, <1>10, ZenonT(60)

\* After such a write, every other node is as before.
LEMMA OneNodeChanged ==
    ASSUME Inv, NEW id \in Ids, NEW n, Changed(id, n)
    PROVE  View'.allNodes[id] = n /\ \A j \in Ids \ {id} : View'.allNodes[j] = View.allNodes[j]
<1>1. View.allNodes \in NodeMaps
  BY ViewTypes, Zenon DEF Inv
<1> QED BY <1>1, Zenon DEF Changed, NodeMaps

\* A node was created by a block of the chain, or by the block being connected.
LEMMA CreatedBy ==
    ASSUME Inv, NEW id \in Ids, IsNode(View.allNodes[id])
    PROVE  LET c == View.allNodes[id].creationHeight
           IN  c \in Nat /\ (c <= Len(chain) \/ (pc = "connect" /\ c = nHeight))
<1> DEFINE c == View.allNodes[id].creationHeight
<1>1. c \in Heights /\ \E t \in Txns : PendingUndo[c][t] = CreateRecord(id)
  BY Zenon DEF Inv, ViewOK, UndoRecordsApply, UndoOK
<1> HIDE DEF c
<1>2. c \in Nat
  BY <1>1, BoundAssumption DEF Heights
<1> QED BY <1>1, <1>2, RecordFacts, Zenon DEF Inv, ViewOK, c

\* Appending a transaction to the block at hand.
LEMMA BlockGrows ==
    ASSUME Inv, NEW tx \in TxPool, ConnectTx(tx)
    PROVE  \A type, id : InBlock(block', type, id) <=> InBlock(block, type, id) \/ (tx.type = type /\ tx.id = id)
<1>1. block \in Blocks /\ block' = [block EXCEPT !.txs = Append(@, tx)] /\ tx \in Txs
  BY TxPoolAssumption, Zenon DEF Inv, TypeOK, ConnectTx
<1>2. block.txs \in Seq(Txs) /\ block'.txs = Append(block.txs, tx)
  BY <1>1, Zenon DEF Blocks
<1> DEFINE s == block.txs
<1>3. /\ Len(s) \in Nat /\ Len(block'.txs) = Len(s) + 1 /\ block'.txs[Len(s) + 1] = tx
      /\ \A t \in 1 .. Len(s) : block'.txs[t] = s[t]
  BY <1>1, <1>2
<1> HIDE DEF s
<1>4. \A t : t \in 1 .. Len(s) + 1 <=> t \in 1 .. Len(s) \/ t = Len(s) + 1
  BY <1>3
<1> QED BY <1>3, <1>4, ZenonT(60) DEF InBlock, s

-----------------------------------------------------------------------------
(* Bans, on the chain and in the registry.                                 *)

\* The transactions of the block at height h that have not been rolled back,
\* when the validation thread is in phase p.
Left(p, h) ==
    IF h = Len(chain) /\ p = "disconnect" THEN 1 .. cursor
    ELSE IF h = Len(chain) /\ p = "undo" THEN {}
    ELSE 1 .. Len(chain[h].txs)

BanOnChain(p, h, id) ==
    \/ p = "connect" /\ h = nHeight /\ InBlock(block, "criminal", id)
    \/ /\ h \in 1 .. Len(chain)
       /\ \E t \in Left(p, h) : chain[h].txs[t].type = "criminal" /\ chain[h].txs[t].id = id

\* A ban names the transaction that set it, which is still on the chain.
BanOK(n, id, p) ==
    \/ n.banTx = NullTx /\ n.banHeight = NoHeight
    \/ \E h \in Heights : /\ n.banTx = <<h, id>> /\ n.banHeight = h /\ n.creationHeight <= h
                          /\ BanOnChain(p, h, id)

BansOK(nodes, p) == \A id \in Ids : IsNode(nodes[id]) => BanOK(nodes[id], id, p)

Banned(nodes, id) == IsNode(nodes[id]) /\ nodes[id].banTx # NullTx

BanInv ==
    /\ BansOK(base.allNodes, "idle") /\ BansOK(View.allNodes, pc)
    /\ pc = "idle" => touched = {}
    /\ pc = "connect" =>
          /\ \A id \in touched : Banned(View.allNodes, id)
          /\ \A id \in Ids : Banned(base.allNodes, id) => Banned(View.allNodes, id)
    /\ pc \in {"disconnect", "undo"} =>
          \A id \in Ids : Banned(base.allNodes, id) => Banned(View.allNodes, id) \/ id \in touched

\* A change of other fields leaves a ban as it is.
LEMMA SameBan ==
    ASSUME NEW m, NEW n, n.banTx = m.banTx, n.banHeight = m.banHeight,
           n.creationHeight = m.creationHeight, NEW id, NEW p, BanOK(m, id, p)
    PROVE  BanOK(n, id, p)
BY Zenon DEF BanOK

\* ConnectTip starts on the base.
LEMMA BanConnectBlock ==
    ASSUME Inv, Inv', BanInv, NEW m \in Keys, NEW k \in Heights, ConnectBlock(m, k)
    PROVE  BanInv'
<1>1. /\ base' = base /\ chain' = chain /\ mnview' = mnview /\ touched' = touched
      /\ pc = "idle" /\ pc' = "connect"
  BY Zenon DEF ConnectBlock, Inv, PhaseOK
<1>2. View' = View /\ View = base
  BY <1>1, IdleView, Zenon DEF Inv, View, ApplyCache
<1>3. \A h, id : /\ BanOnChain("idle", h, id) => BanOnChain("idle", h, id)'
                 /\ BanOnChain("idle", h, id) => BanOnChain("connect", h, id)'
  BY <1>1, Zenon DEF BanOnChain, Left
<1>4. \A n, id : BanOK(n, id, "idle") => BanOK(n, id, "idle")' /\ BanOK(n, id, "connect")'
  BY <1>3, Zenon DEF BanOK
<1> QED BY <1>1, <1>2, <1>4, Zenon DEF BanInv, BansOK, Banned

\* A transaction of the block at hand bans at most the node that it names.
LEMMA BanConnectTx ==
    ASSUME Inv, Inv', BanInv, NEW tx \in TxPool,
           ConnectCreate(tx) \/ ConnectResign(tx) \/ ConnectCriminal(tx) \/ ConnectSpend(tx)
    PROVE  BanInv'
<1> DEFINE id == tx.id
           N  == View.allNodes
<1>1. ConnectTx(tx)
  BY Zenon DEF ConnectCreate, ConnectResign, ConnectCriminal, ConnectSpend
<1>2. /\ base' = base /\ chain' = chain /\ pc = "connect" /\ pc' = "connect" /\ nHeight' = nHeight
      /\ nHeight \in Heights /\ id \in Ids /\ Len(chain) \in Nat
  BY <1>1, ConnectTxFacts, Zenon
<1>3. \A h, j : /\ BanOnChain("idle", h, j) => BanOnChain("idle", h, j)'
                /\ BanOnChain("connect", h, j) => BanOnChain("connect", h, j)'
  BY <1>1, <1>2, BlockGrows, Zenon DEF BanOnChain, Left
<1>4. \A n, j : /\ BanOK(n, j, "idle") => BanOK(n, j, "idle")'
                /\ BanOK(n, j, "connect") => BanOK(n, j, "connect")'
  BY <1>3, Zenon DEF BanOK
<1>5. BansOK(base.allNodes, "idle")'
  BY <1>2, <1>4, Zenon DEF BanInv, BansOK
<1>6. ASSUME \/ N' = N /\ touched' = touched
             \/ \E n : /\ Changed(id, n) /\ (IsNode(n) => BanOK(n, id, "connect")')
                       /\ (Banned(N, id) \/ id \in touched' \ touched => IsNode(n) /\ n.banTx # NullTx)
                       /\ touched' \subseteq touched \cup {id}
      PROVE  BanInv'
  <2>1. CASE N' = N /\ touched' = touched
    BY <1>2, <1>4, <1>5, <2>1, Zenon DEF BanInv, BansOK, Banned
  <2>2. ASSUME NEW n, Changed(id, n), IsNode(n) => BanOK(n, id, "connect")',
               Banned(N, id) \/ id \in touched' \ touched => IsNode(n) /\ n.banTx # NullTx,
               touched' \subseteq touched \cup {id}
        PROVE  BanInv'
    <3>1. N'[id] = n /\ \A j \in Ids \ {id} : N'[j] = N[j]
      BY <1>2, <2>2, OneNodeChanged, Zenon
    <3> HIDE DEF N
    <3>2. BansOK(View.allNodes, pc)'
      <4>1. \A j \in Ids : IsNode(N[j]) => BanOK(N[j], j, "connect")
        BY <1>2, Zenon DEF BanInv, BansOK, N
      <4>2. ASSUME NEW j \in Ids, IsNode(N'[j]) PROVE BanOK(N[j], j, "connect")'
        BY <1>4, <2>2, <3>1, <4>1, <4>2, Zenon
      <4> QED BY <1>2, <4>2, Zenon DEF BansOK, N
    <3>3. \A j \in Ids : Banned(N, j) => Banned(N', j)
      BY <2>2, <3>1, Zenon DEF Banned
    <3>4. \A j \in touched : Banned(N, j) /\ j \in Ids
      BY <1>2, Zenon DEF BanInv, N, Inv, TypeOK
    <3>5. \A j \in touched' : Banned(N', j)
      BY <2>2, <3>1, <3>3, <3>4, Zenon DEF Banned
    <3> QED BY <1>2, <1>5, <3>2, <3>3, <3>5, Zenon DEF BanInv, N
  <2> QED BY <1>6, <2>1, <2>2, Zenon
<1>7. CASE ConnectCreate(tx)
  <2>1. touched' = touched
    BY <1>7, Zenon DEF ConnectCreate
  <2>2. \A n : n = FromTx(id, nHeight) => BanOK(n, id, "connect")'
    BY DEF BanOK, FromTx
  <2>3. N' = N \/ (~IsNode(N[id]) /\ Changed(id, FromTx(id, nHeight)))
    BY <1>7, CreateEffect, Zenon
  <2>4. id \in touched => IsNode(N[id])
    BY <1>2, Zenon DEF BanInv, Banned
  <2> QED BY <1>6, <2>1, <2>2, <2>3, <2>4, Zenon DEF Banned
<1>8. CASE ConnectResign(tx)
  <2> DEFINE n == [N[id] EXCEPT !.resignHeight = nHeight]
  <2>1. touched' = touched
    BY <1>8, Zenon DEF ConnectResign
  <2>2. N' = N \/ (IsNode(N[id]) /\ N[id] \in CMasternode /\ Changed(id, n) /\ IsNode(n))
    BY <1>8, ResignEffect, Zenon
  <2>3. N[id] \in CMasternode => /\ n.banTx = N[id].banTx /\ n.banHeight = N[id].banHeight
                                 /\ n.creationHeight = N[id].creationHeight
    <3> HIDE DEF N
    <3> QED BY Zenon DEF CMasternode
  <2>4. IsNode(N[id]) => BanOK(N[id], id, "connect")
    BY <1>2, Zenon DEF BanInv, BansOK
  <2> HIDE DEF n, N
  <2>5. CASE N' = N
    BY <1>6, <2>1, <2>5, Zenon
  <2>6. CASE IsNode(N[id]) /\ N[id] \in CMasternode /\ Changed(id, n) /\ IsNode(n)
    <3>1. \A x : x = n => BanOK(x, id, "connect")'
      BY <1>4, <2>3, <2>4, <2>6, SameBan, Zenon
    <3> QED BY <1>6, <2>1, <2>3, <2>6, <3>1, Zenon DEF Banned
  <2> QED BY <2>2, <2>5, <2>6, Zenon
<1>9. CASE ConnectCriminal(tx)
  <2> DEFINE n == [N[id] EXCEPT !.banHeight = nHeight, !.banTx = <<nHeight, id>>]
  <2>1. \/ N' = N /\ touched' = touched
        \/ /\ IsNode(N[id]) /\ N[id] \in CMasternode /\ IsNode(n)
           /\ touched' = touched \cup {id} /\ Changed(id, n)
    BY <1>9, CriminalEffect, Zenon
  <2>2. CASE IsNode(N[id]) /\ N[id] \in CMasternode /\ IsNode(n)
             /\ touched' = touched \cup {id} /\ Changed(id, n)
    <3>1. n.banTx = <<nHeight, id>> /\ n.banHeight = nHeight /\ n.creationHeight = N[id].creationHeight
      <4> HIDE DEF N
      <4> QED BY <2>2, ZenonT(60) DEF CMasternode
    <3>2. N[id].creationHeight <= nHeight
      <4>1. N[id].creationHeight \in Nat /\ (N[id].creationHeight <= Len(chain) \/ N[id].creationHeight = nHeight)
        BY <1>2, <2>2, CreatedBy, Zenon
      <4> HIDE DEF N
      <4> QED BY <1>2, <4>1 DEF nHeight
    <3>3. BanOnChain("connect", nHeight, id)'
      BY <1>1, <1>2, <1>9, BlockGrows, Zenon DEF BanOnChain, ConnectCriminal
    <3>4. <<nHeight, id>> # NullTx
      BY <1>2, NullTxAssumption, BoundAssumption DEF BanTxs, Heights
    <3> HIDE DEF n, N
    <3>5. \A x : x = n => BanOK(x, id, "connect")'
      BY <1>2, <3>1, <3>2, <3>3, Zenon DEF BanOK
    <3> QED BY <1>6, <2>2, <3>1, <3>4, <3>5, Zenon
  <2> QED BY <1>6, <2>1, <2>2, Zenon
<1>10. CASE ConnectSpend(tx)
  <2>1. mnview' = mnview /\ touched' = touched
    BY <1>10, Zenon DEF ConnectSpend
  <2>2. N' = N
    BY <1>2, <2>1, Zenon DEF View, ApplyCache
  <2> QED BY <1>6, <2>1, <2>2, Zenon
<1> QED BY <1>7, <1>8, <1>9, <1>10, Zenon

\* A block that fails drops its bans with the cache.
LEMMA BanConnectFails == ASSUME Inv, Inv', BanInv, ConnectBlockFails PROVE BanInv'
<1>1. base' = base /\ chain' = chain /\ touched' = {} /\ pc' = "idle"
  BY Zenon DEF ConnectBlockFails
<1>2. View' = base'
  BY <1>1, IdleNodes, Zenon
<1>3. \A h, j : BanOnChain("idle", h, j) => BanOnChain("idle", h, j)'
  BY <1>1, Zenon DEF BanOnChain, Left
<1>4. \A n, j : BanOK(n, j, "idle") => BanOK(n, j, "idle")'
  BY <1>3, Zenon DEF BanOK
<1> QED BY <1>1, <1>2, <1>4, Zenon DEF BanInv, BansOK

\* The block that is done is on the chain with its bans.
LEMMA BanConnectDone == ASSUME Inv, Inv', BanInv, ConnectTipDone PROVE BanInv'
<1> DEFINE N == View.allNodes
<1>1. pc = "connect" /\ pc' = "idle" /\ chain' = Append(chain, block) /\ touched' = {}
  BY Zenon DEF ConnectTipDone
<1>2. PICK id \in Ids :
        LET n == [N[id] EXCEPT !.mintedBlocks = @ + 1]
        IN  /\ IsNode(N[id]) /\ N[id] \in CMasternode /\ IsNode(n)
            /\ base'.allNodes = [N EXCEPT ![id] = n] /\ View' = base'
  BY ConnectTipEffect, Zenon
<1>3. N \in NodeMaps
  BY ViewTypes, Zenon DEF Inv
<1> HIDE DEF N
<1>4. \A j \in Ids : /\ IsNode(base'.allNodes[j]) <=> IsNode(N[j])
                     /\ IsNode(N[j]) => /\ base'.allNodes[j].banTx = N[j].banTx
                                        /\ base'.allNodes[j].banHeight = N[j].banHeight
                                        /\ base'.allNodes[j].creationHeight = N[j].creationHeight
  BY <1>2, <1>3, SMTT(30) DEF NodeMaps, CMasternode
<1>5. /\ chain \in Seq(Blocks) /\ Len(chain) \in Nat /\ Len(chain') = nHeight /\ nHeight = Len(chain) + 1
      /\ \A j \in 1 .. Len(chain) : chain'[j] = chain[j]
      /\ chain'[nHeight] = block
  BY <1>1 DEF Inv, TypeOK, nHeight
<1>6. ASSUME NEW h \in Heights, NEW j \in Ids, BanOnChain("connect", h, j) PROVE BanOnChain("idle", h, j)'
  <2>1. CASE h = nHeight /\ InBlock(block, "criminal", j)
    <3>1. nHeight \in 1 .. Len(chain')
      BY <1>5
    <3> QED BY <1>5, <2>1, <3>1, Zenon DEF BanOnChain, Left, InBlock
  <2>2. CASE /\ h \in 1 .. Len(chain)
             /\ \E t \in Left("connect", h) : chain[h].txs[t].type = "criminal" /\ chain[h].txs[t].id = j
    <3>1. h \in 1 .. Len(chain')
      BY <1>5, <2>2
    <3>2. chain'[h] = chain[h]
      BY <1>5, <2>2, Zenon
    <3> QED BY <2>2, <3>1, <3>2, Zenon DEF BanOnChain, Left
  <2> QED BY <1>6, <2>1, <2>2, Zenon DEF BanOnChain
<1>7. \A n, j : j \in Ids /\ BanOK(n, j, "connect") => BanOK(n, j, "idle")'
  BY <1>6, Zenon DEF BanOK
<1>8. ASSUME NEW j \in Ids, IsNode(base'.allNodes[j]) PROVE BanOK(base.allNodes[j], j, "idle")'
  <2>1. BanOK(N[j], j, "connect")
    BY <1>1, <1>4, <1>8, Zenon DEF BanInv, BansOK, N
  <2>2. BanOK(base'.allNodes[j], j, "connect")
    BY <1>4, <1>8, <2>1, SameBan, Zenon
  <2>3. \A n : n = base'.allNodes[j] => BanOK(n, j, "idle")'
    BY <1>7, <2>2, Zenon
  <2> QED BY <2>3, Zenon
<1>9. BansOK(base.allNodes, "idle")'
  BY <1>8, Zenon DEF BansOK
<1> QED BY <1>1, <1>2, <1>9, Zenon DEF BanInv

\* DisconnectTip starts on the base, with every transaction of the block.
LEMMA BanDisconnectBlock == ASSUME Inv, Inv', BanInv, DisconnectBlock PROVE BanInv'
<1>1. /\ base' = base /\ chain' = chain /\ mnview' = mnview /\ touched' = touched
      /\ pc = "idle" /\ pc' = "disconnect" /\ cursor' = Len(chain[Len(chain)].txs)
  BY Zenon DEF DisconnectBlock, Inv, PhaseOK
<1>2. View' = View /\ View = base
  BY <1>1, IdleView, Zenon DEF Inv, View, ApplyCache
<1>3. \A h, id : /\ BanOnChain("idle", h, id) => BanOnChain("idle", h, id)'
                 /\ BanOnChain("idle", h, id) => BanOnChain("disconnect", h, id)'
  BY <1>1 DEF BanOnChain, Left
<1>4. \A n, id : BanOK(n, id, "idle") => BanOK(n, id, "idle")' /\ BanOK(n, id, "disconnect")'
  BY <1>3, Zenon DEF BanOK
<1> QED BY <1>1, <1>2, <1>4, Zenon DEF BanInv, BansOK, Banned

\* Passing a transaction over: the ban that it set is lifted, and remembered.
LEMMA BanDisconnectTx == ASSUME Inv, Inv', BanInv, DisconnectTx PROVE BanInv'
<1> DEFINE N  == View.allNodes
           tx == block.txs[cursor]
           id == tx.id
           n  == [N[id] EXCEPT !.banHeight = NoHeight, !.banTx = NullTx]
           unbans == tx.type = "criminal" /\ IsNode(N[id]) /\ N[id].banTx = <<Len(chain), id>>
<1>1. /\ base' = base /\ chain' = chain /\ block' = block /\ pc = "disconnect" /\ pc' = "disconnect"
      /\ cursor' = cursor - 1
  BY ZenonT(60) DEF DisconnectTx
<1>2. /\ tx \in Txs /\ cursor \in 1 .. Len(block.txs)
      /\ \/ N' = N /\ touched' = touched /\ ~unbans
         \/ /\ unbans /\ N[id] \in CMasternode /\ IsNode(n)
            /\ touched' = touched \cup {id} /\ Changed(id, n)
  BY UnbanEffect, Zenon
<1>3. id \in Ids
  BY <1>2, ZenonT(60) DEF Txs
<1>4. block = chain[Len(chain)] /\ Len(chain) \in Nat
  BY <1>1 DEF Inv, PhaseOK, TypeOK
<1>5. cursor \in Nat /\ \A t \in 1 .. cursor : t # cursor => t \in 1 .. cursor - 1
  <2>1. cursor \in Nat
    BY BoundAssumption DEF Inv, TypeOK
  <2>2. \A c \in Nat : \A t \in 1 .. c : t # c => t \in 1 .. c - 1
    OBVIOUS
  <2> QED BY <2>1, <2>2, Zenon
<1> HIDE DEF tx
<1>6. \A h, j : BanOnChain("idle", h, j) => BanOnChain("idle", h, j)'
  BY <1>1, Zenon DEF BanOnChain, Left
<1>7. ASSUME NEW h, NEW j, BanOnChain("disconnect", h, j),
             ~(h = Len(chain) /\ tx.type = "criminal" /\ id = j)
      PROVE  BanOnChain("disconnect", h, j)'
  <2>1. PICK t \in Left("disconnect", h) : chain[h].txs[t].type = "criminal" /\ chain[h].txs[t].id = j
    BY <1>7, Zenon DEF BanOnChain
  <2>2. h \in 1 .. Len(chain)
    BY <1>7, Zenon DEF BanOnChain
  <2>3. CASE h = Len(chain)
    <3>1. t \in 1 .. cursor /\ t # cursor
      BY <1>4, <1>7, <2>1, <2>3, Zenon DEF Left, tx
    <3> QED BY <1>1, <1>5, <2>1, <2>2, <2>3, <3>1, Zenon DEF BanOnChain, Left
  <2>4. CASE h # Len(chain)
    BY <1>1, <2>1, <2>2, <2>4, Zenon DEF BanOnChain, Left
  <2> QED BY <2>3, <2>4, Zenon
<1>8. \A m, j : BanOK(m, j, "idle") => BanOK(m, j, "idle")'
  BY <1>6, Zenon DEF BanOK
<1>9. \A m, j : /\ BanOK(m, j, "disconnect")
                /\ ~(m.banTx = <<Len(chain), j>> /\ tx.type = "criminal" /\ id = j)
                => BanOK(m, j, "disconnect")'
  BY <1>7, Zenon DEF BanOK
<1>10. BansOK(base.allNodes, "idle")'
  BY <1>1, <1>8, Zenon DEF BanInv, BansOK
<1>11. \A j \in Ids : IsNode(N[j]) => BanOK(N[j], j, "disconnect")
  BY <1>1, Zenon DEF BanInv, BansOK
<1>12. \A j \in Ids : Banned(base.allNodes, j) => Banned(N, j) \/ j \in touched
  BY <1>1, Zenon DEF BanInv
<1>13. CASE N' = N /\ touched' = touched /\ ~unbans
  <2>1. \A j \in Ids : IsNode(N'[j]) => \A m : m = N'[j] => BanOK(m, j, "disconnect")'
    BY <1>9, <1>11, <1>13, Zenon
  <2> HIDE DEF N
  <2> QED BY <1>1, <1>10, <1>12, <1>13, <2>1, Zenon DEF BanInv, BansOK, N
<1>14. CASE unbans /\ N[id] \in CMasternode /\ IsNode(n) /\ touched' = touched \cup {id} /\ Changed(id, n)
  <2>1. N'[id] = n /\ \A j \in Ids \ {id} : N'[j] = N[j]
    BY <1>3, <1>14, OneNodeChanged, Zenon
  <2>2. n.banTx = NullTx /\ n.banHeight = NoHeight
    <3> HIDE DEF N
    <3> QED BY <1>14, Zenon DEF CMasternode
  <2> HIDE DEF N, n
  <2>3. ASSUME NEW j \in Ids, IsNode(N'[j]) PROVE \A m : m = N'[j] => BanOK(m, j, "disconnect")'
    <3>1. CASE j = id
      BY <2>1, <2>2, <3>1, Zenon DEF BanOK
    <3>2. CASE j # id
      BY <1>9, <1>11, <2>1, <2>3, <3>2, Zenon
    <3> QED BY <3>1, <3>2, Zenon
  <2>4. \A j \in Ids : Banned(base.allNodes, j) => Banned(N', j) \/ j \in touched'
    BY <1>12, <1>14, <2>1, Zenon DEF Banned
  <2> QED BY <1>1, <1>10, <2>3, <2>4, Zenon DEF BanInv, BansOK, N
<1> QED BY <1>2, <1>13, <1>14

\* No ban of the block is left when its transactions have been passed over.
LEMMA BanOnUndoBlock == ASSUME Inv, Inv', BanInv, OnUndoBlock PROVE BanInv'
<1>1. /\ base' = base /\ chain' = chain /\ mnview' = mnview /\ touched' = touched
      /\ pc = "disconnect" /\ pc' = "undo" /\ cursor = 0
  BY Zenon DEF OnUndoBlock
<1>2. View' = View
  BY <1>1, Zenon DEF View, ApplyCache
<1>3. 1 .. 0 = {}
  OBVIOUS
<1>4. \A h, id : /\ BanOnChain("idle", h, id) => BanOnChain("idle", h, id)'
                 /\ BanOnChain("disconnect", h, id) => BanOnChain("undo", h, id)'
  BY <1>1, <1>3, Zenon DEF BanOnChain, Left
<1>5. \A n, id : /\ BanOK(n, id, "idle") => BanOK(n, id, "idle")'
                 /\ BanOK(n, id, "disconnect") => BanOK(n, id, "undo")'
  BY <1>4, Zenon DEF BanOK
<1> QED BY <1>1, <1>2, <1>5, Zenon DEF BanInv, BansOK, Banned

\* A node that OnUndoBlock deletes was created by this block, so it is not banned any more.
LEMMA BanUndoTx == ASSUME Inv, Inv', BanInv, UndoTx PROVE BanInv'
<1> DEFINE N == View.allNodes
<1>1. /\ base' = base /\ chain' = chain /\ touched' = touched /\ pc = "undo" /\ pc' = "undo"
  BY Zenon DEF UndoTx
<1>2. \A h, j : /\ BanOnChain("idle", h, j) => BanOnChain("idle", h, j)'
                /\ BanOnChain("undo", h, j) => BanOnChain("undo", h, j)'
  BY <1>1, Zenon DEF BanOnChain, Left
<1>3. \A n, j : /\ BanOK(n, j, "idle") => BanOK(n, j, "idle")'
                /\ BanOK(n, j, "undo") => BanOK(n, j, "undo")'
  BY <1>2, Zenon DEF BanOK
<1>4. BansOK(base.allNodes, "idle")'
  BY <1>1, <1>3, Zenon DEF BanInv, BansOK
<1>5. /\ \A j \in Ids : IsNode(N[j]) => BanOK(N[j], j, "undo")
      /\ \A j \in Ids : Banned(base.allNodes, j) => Banned(N, j) \/ j \in touched
  BY <1>1, Zenon DEF BanInv, BansOK
<1>6. CASE N' = N
  BY <1>1, <1>3, <1>4, <1>6, Zenon DEF BanInv, BansOK, Banned
<1>7. ASSUME NEW id \in Ids, NEW n, Changed(id, n),
             IsNode(n) => BanOK(n, id, "undo"), Banned(N, id) => IsNode(n) /\ n.banTx # NullTx
      PROVE  BanInv'
  <2>1. N'[id] = n /\ \A j \in Ids \ {id} : N'[j] = N[j]
    BY <1>7, OneNodeChanged, Zenon
  <2> HIDE DEF N
  <2>2. ASSUME NEW j \in Ids, IsNode(N'[j]) PROVE BanOK(N[j], j, "undo")'
    <3>1. BanOK(N'[j], j, "undo")
      BY <1>5, <1>7, <2>1, <2>2, Zenon
    <3>2. \A m : m = N'[j] => BanOK(m, j, "undo")'
      BY <1>3, <3>1, Zenon
    <3> QED BY <3>2, Zenon
  <2>3. \A j \in Ids : Banned(base.allNodes, j) => Banned(N', j) \/ j \in touched
    BY <1>5, <1>7, <2>1, Zenon DEF Banned
  <2> QED BY <1>1, <1>4, <2>2, <2>3, Zenon DEF BanInv, BansOK, N
<1>8. ASSUME NEW id \in Ids, IsNode(N[id]), N[id].creationHeight = Len(chain), Changed(id, EmptyNode)
      PROVE  BanInv'
  <2>1. ~IsNode(EmptyNode)
    BY Zenon DEF IsNode
  <2>2. ~Banned(N, id)
    <3> SUFFICES ASSUME N[id].banTx # NullTx PROVE FALSE
      BY Zenon DEF Banned
    <3>1. PICK h \in Heights : N[id].creationHeight <= h /\ BanOnChain("undo", h, id)
      BY <1>5, <1>8, Zenon DEF BanOK
    <3>2. h \in 1 .. Len(chain) /\ Len(chain) \in Nat /\ h # Len(chain)
      BY <3>1 DEF BanOnChain, Left, Inv, TypeOK
    <3> QED BY <1>8, <3>1, <3>2
  <2> QED BY <1>7, <1>8, <2>1, <2>2, Zenon
<1>9. ASSUME NEW id \in Ids, IsNode(N[id]), N[id] \in CMasternode,
             IsNode([N[id] EXCEPT !.resignHeight = NoHeight]),
             Changed(id, [N[id] EXCEPT !.resignHeight = NoHeight])
      PROVE  BanInv'
  <2> DEFINE n == [N[id] EXCEPT !.resignHeight = NoHeight]
  <2>1. n.banTx = N[id].banTx /\ n.banHeight = N[id].banHeight /\ n.creationHeight = N[id].creationHeight
    <3> HIDE DEF N
    <3> QED BY <1>9, Zenon DEF CMasternode
  <2>2. IsNode(n) /\ Changed(id, n)
    BY <1>9, Zenon
  <2> HIDE DEF n
  <2>3. BanOK(n, id, "undo")
    BY <1>5, <1>9, <2>1, SameBan, Zenon
  <2> QED BY <1>7, <2>1, <2>2, <2>3, Zenon DEF Banned
<1>10. \/ N' = N
       \/ \E id \in Ids : IsNode(N[id]) /\ N[id].creationHeight = Len(chain) /\ Changed(id, EmptyNode)
       \/ \E id \in Ids : /\ IsNode(N[id]) /\ N[id] \in CMasternode
                          /\ IsNode([N[id] EXCEPT !.resignHeight = NoHeight])
                          /\ Changed(id, [N[id] EXCEPT !.resignHeight = NoHeight])
  BY UndoEffect, Zenon
<1> QED BY <1>6, <1>8, <1>9, <1>10, Zenon

\* The bans of the blocks below stay.
LEMMA BanDisconnectDone == ASSUME Inv, Inv', BanInv, DisconnectTipDone PROVE BanInv'
<1> DEFINE N == View.allNodes
           h == Len(chain)
<1>1. pc = "undo" /\ pc' = "idle" /\ chain' = [j \in 1 .. h - 1 |-> chain[j]] /\ touched' = {}
  BY Zenon DEF DisconnectTipDone
<1>2. PICK id \in Ids :
        LET n == [N[id] EXCEPT !.mintedBlocks = @ - 1]
        IN  /\ IsNode(N[id]) /\ N[id] \in CMasternode /\ IsNode(n)
            /\ base'.allNodes = [N EXCEPT ![id] = n] /\ View' = base'
  BY DisconnectTipEffect, Zenon
<1>3. N \in NodeMaps
  BY ViewTypes, Zenon DEF Inv
<1> HIDE DEF N
<1>4. \A j \in Ids : /\ IsNode(base'.allNodes[j]) <=> IsNode(N[j])
                     /\ IsNode(N[j]) => /\ base'.allNodes[j].banTx = N[j].banTx
                                        /\ base'.allNodes[j].banHeight = N[j].banHeight
                                        /\ base'.allNodes[j].creationHeight = N[j].creationHeight
  BY <1>2, <1>3, SMTT(30) DEF NodeMaps, CMasternode
<1>5. /\ h \in Nat /\ h > 0 /\ Len(chain') = h - 1
      /\ \A j \in 1 .. h - 1 : chain'[j] = chain[j]
  BY <1>1 DEF Inv, TypeOK, PhaseOK
<1>6. ASSUME NEW i \in Heights, NEW j \in Ids, BanOnChain("undo", i, j) PROVE BanOnChain("idle", i, j)'
  <2>1. /\ i \in 1 .. h
        /\ \E t \in Left("undo", i) : chain[i].txs[t].type = "criminal" /\ chain[i].txs[t].id = j
    BY <1>6, Zenon DEF BanOnChain
  <2>2. i # h
    BY <2>1, Zenon DEF Left
  <2>3. i \in 1 .. Len(chain') /\ chain'[i] = chain[i]
    BY <1>5, <2>1, <2>2
  <2> QED BY <2>1, <2>2, <2>3, Zenon DEF BanOnChain, Left
<1>7. \A n, j : j \in Ids /\ BanOK(n, j, "undo") => BanOK(n, j, "idle")'
  BY <1>6, Zenon DEF BanOK
<1>8. ASSUME NEW j \in Ids, IsNode(base'.allNodes[j]) PROVE BanOK(base.allNodes[j], j, "idle")'
  <2>1. BanOK(N[j], j, "undo")
    BY <1>1, <1>4, <1>8, Zenon DEF BanInv, BansOK, N
  <2>2. BanOK(base'.allNodes[j], j, "undo")
    BY <1>4, <1>8, <2>1, SameBan, Zenon
  <2>3. \A n : n = base'.allNodes[j] => BanOK(n, j, "idle")'
    BY <1>7, <2>2, Zenon
  <2> QED BY <2>3, Zenon
<1>9. BansOK(base.allNodes, "idle")'
  BY <1>8, Zenon DEF BansOK
<1> QED BY <1>1, <1>2, <1>9, Zenon DEF BanInv

\* Bans and criminals after the remaining steps, which change neither chain nor registry.
LEMMA BanOther ==
    ASSUME Inv, BanInv, UNCHANGED <<base, mnview, chain, pc, block, cursor, touched>>
    PROVE  BanInv'
<1>1. View' = View
  BY Zenon DEF View, ApplyCache
<1>2. \A p, h, j : BanOnChain(p, h, j) => BanOnChain(p, h, j)'
  BY Zenon DEF BanOnChain, Left, nHeight
<1>3. \A p, n, j : BanOK(n, j, p) => BanOK(n, j, p)'
  BY <1>2, Zenon DEF BanOK
<1> QED BY <1>1, <1>3, Zenon DEF BanInv, BansOK, Banned

\* The genesis block bans nobody.
LEMMA BanInit == Init => BanInv
<1> SUFFICES ASSUME Init PROVE BanInv
  BY Zenon
<1>1. Inv /\ pc = "idle" /\ touched = {} /\ base = GenesisView
  BY InitInv, Zenon DEF Init
<1>2. View = base
  BY <1>1, IdleView, Zenon DEF Inv
<1>3. ASSUME NEW id \in Ids, IsNode(base.allNodes[id]) PROVE BanOK(base.allNodes[id], id, "idle")
  <2>1. base.allNodes[id] = FromTx(id, 0)
    BY <1>1, <1>3, Zenon DEF GenesisView, IsNode
  <2> QED BY <2>1 DEF BanOK, FromTx
<1> QED BY <1>1, <1>2, <1>3, Zenon DEF BanInv, BansOK

\* Every step keeps what the bans rest on.
LEMMA BanStep == Inv /\ BanInv /\ [Next]_vars => BanInv'
<1> SUFFICES ASSUME Inv, BanInv, [Next]_vars PROVE BanInv'
  BY Zenon
<1>1. Inv'
  BY NextInv, Zenon
<1>2. CASE \/ \E minter \in Keys, height \in Heights : AddCriminalProof(minter, height)
           \/ AssertFails \/ UNCHANGED vars
  BY <1>2, BanOther, ZenonT(60) DEF AddCriminalProof, AssertFails, vars
<1> QED
  BY <1>1, <1>2, BanConnectBlock, BanConnectTx, BanConnectFails, BanConnectDone, BanDisconnectBlock,
     BanDisconnectTx, BanOnUndoBlock, BanUndoTx, BanDisconnectDone, Zenon DEF Next

-----------------------------------------------------------------------------
(* Spent collaterals and the blocks of their masternodes.                  *)

\* The delay after the resignation or the ban of n is over at height i.
Locked(n, i) ==
    \/ n.resignHeight # NoHeight /\ n.resignHeight + ResignDelay <= i
    \/ n.banHeight # NoHeight /\ n.banHeight + ResignDelay <= i

SpentOK(nodes) ==
    \A i \in 1 .. Len(chain), id \in Ids : InBlock(chain[i], "spend", id) /\ IsNode(nodes[id]) =>
        /\ Locked(nodes[id], i)
        /\ \A j \in i .. Len(chain) : chain[j].minter # OperatorOf[id]

CreatedBefore ==
    \A i \in 1 .. Len(chain), id \in Ids : InBlock(chain[i], "spend", id) =>
        id \in GenesisIds \/ \E k \in 1 .. i : InBlock(chain[k], "create", id)

\* The block being connected spends what may be spent and is minted by a node that may mint.
BlockSpends ==
    \A id \in Ids :
       /\ InBlock(block, "spend", id) => id \in GenesisIds \/ OnChain("create", id)
       /\ InBlock(block, "spend", id) /\ IsNode(View.allNodes[id]) => Locked(View.allNodes[id], nHeight)
       /\ block.minter = OperatorOf[id] /\ IsNode(View.allNodes[id]) => ~Locked(View.allNodes[id], nHeight)

SpendInv ==
    /\ SpentOK(base.allNodes) /\ SpentOK(View.allNodes) /\ CreatedBefore
    /\ pc = "connect" => BlockSpends

\* The heights of a node.
LEMMA HeightTypes ==
    ASSUME NEW n \in CMasternode
    PROVE  n.resignHeight \in Nat \cup {NoHeight} /\ n.banHeight \in Nat \cup {NoHeight}
BY Zenon DEF CMasternode

\* A delay that is over stays over.
LEMMA LockedLater ==
    ASSUME NEW n \in CMasternode, NEW i \in Nat, NEW j \in Nat, i <= j, Locked(n, i)
    PROVE  Locked(n, j)
<1>1. \A a \in Nat : a + ResignDelay <= i => a + ResignDelay <= j
  BY DelayAssumption
<1> QED BY <1>1, HeightTypes, Zenon DEF Locked

\* A node that may mint cannot have its collateral spent, and the other way round.
LEMMA StateExcludes ==
    ASSUME NEW n \in CMasternode, BanXorResign(n), NEW h \in Nat
    PROVE  /\ IsActive(n, h) => ~Locked(n, h)
           /\ GetState(n, h) \in {"RESIGNED", "BANNED"} => Locked(n, h)
<1>1. n.resignHeight \in Nat \cup {NoHeight} /\ n.banHeight \in Nat \cup {NoHeight}
  BY HeightTypes, Zenon
<1>2. n.banHeight = NoHeight \/ n.resignHeight = NoHeight
  BY Zenon DEF BanXorResign
<1>3. \A a \in Nat : h < a + ResignDelay <=> ~(a + ResignDelay <= h)
  BY DelayAssumption
<1>4. CASE n.resignHeight = NoHeight /\ n.banHeight = NoHeight
  <2>1. GetState(n, h) \in {"ENABLED", "PRE_ENABLED"}
    BY <1>4, Zenon DEF GetState
  <2> QED BY <1>4, <2>1, Zenon DEF Locked
<1>5. CASE n.resignHeight # NoHeight
  <2>1. n.resignHeight \in Nat /\ n.banHeight = NoHeight
    BY <1>1, <1>2, <1>5, Zenon
  <2>2. GetState(n, h) = IF h < n.resignHeight + ResignDelay THEN "PRE_RESIGNED" ELSE "RESIGNED"
    BY <1>5, <2>1, Zenon DEF GetState
  <2> QED BY <1>3, <1>5, <2>1, <2>2, Zenon DEF Locked, IsActive
<1>6. CASE n.resignHeight = NoHeight /\ n.banHeight # NoHeight
  <2>1. n.banHeight \in Nat
    BY <1>1, <1>6, Zenon
  <2>2. GetState(n, h) = IF h < n.banHeight + ResignDelay THEN "PRE_BANNED" ELSE "BANNED"
    BY <1>6, Zenon DEF GetState
  <2> QED BY <1>3, <1>6, <2>1, <2>2, Zenon DEF Locked, IsActive
<1> QED BY <1>4, <1>5, <1>6, Zenon

\* A step that leaves chain and base alone keeps what is spent on the chain.
LEMMA SpentKept ==
    ASSUME Inv, SpendInv, base' = base, chain' = chain,
           \A id \in Ids : IsNode(View'.allNodes[id]) =>
              \/ /\ IsNode(View.allNodes[id])
                 /\ \A i \in 1 .. Len(chain) : Locked(View.allNodes[id], i) => Locked(View'.allNodes[id], i)
              \/ \A i \in 1 .. Len(chain) : ~InBlock(chain[i], "spend", id)
    PROVE  SpentOK(base.allNodes)' /\ SpentOK(View.allNodes)' /\ CreatedBefore'
<1>1. SpentOK(base.allNodes)' /\ CreatedBefore'
  BY Zenon DEF SpendInv, SpentOK, CreatedBefore
<1>2. ASSUME NEW i \in 1 .. Len(chain), NEW id \in Ids, InBlock(chain[i], "spend", id), IsNode(View'.allNodes[id])
      PROVE  Locked(View'.allNodes[id], i) /\ \A j \in i .. Len(chain) : chain[j].minter # OperatorOf[id]
  <2>1. IsNode(View.allNodes[id]) /\ (Locked(View.allNodes[id], i) => Locked(View'.allNodes[id], i))
    BY <1>2, Zenon
  <2> QED BY <1>2, <2>1, Zenon DEF SpendInv, SpentOK
<1>3. SpentOK(View.allNodes)'
  BY <1>2, Zenon DEF SpentOK
<1> QED BY <1>1, <1>3, Zenon

\* Nobody spends the collateral of a masternode that is not created yet.
LEMMA NotSpentBefore ==
    ASSUME Inv, SpendInv, NEW id \in Ids, id \notin GenesisIds, ~OnChain("create", id)
    PROVE  /\ \A i \in 1 .. Len(chain) : ~InBlock(chain[i], "spend", id)
           /\ pc = "connect" => ~InBlock(block, "spend", id)
<1>1. \A i \in 1 .. Len(chain) : \A k \in 1 .. i : k \in 1 .. Len(chain)
  BY DEF Inv, TypeOK
<1> QED BY <1>1, Zenon DEF SpendInv, CreatedBefore, OnChain, BlockSpends

\* ConnectBlock has checked that the minter's node is active.
LEMMA SpendConnectBlock ==
    ASSUME Inv, SpendInv, NEW m \in Keys, NEW k \in Heights, ConnectBlock(m, k)
    PROVE  SpendInv'
<1>1. /\ base' = base /\ chain' = chain /\ mnview' = mnview /\ pc = "idle"
      /\ ContextualCheckProofOfStake(m, nHeight)
      /\ block' = [minter |-> m, mintedBlocks |-> k, txs |-> <<>>]
  BY Zenon DEF ConnectBlock, Inv, PhaseOK
<1>2. View' = View /\ View = base /\ nHeight' = nHeight /\ nHeight \in Nat
  BY <1>1, IdleView DEF Inv, View, ApplyCache, nHeight, TypeOK
<1>3. SpentOK(base.allNodes)' /\ SpentOK(View.allNodes)' /\ CreatedBefore'
  BY <1>1, <1>2, SpentKept, Zenon
<1>4. \A id : ~InBlock(block', "spend", id)
  BY <1>1 DEF InBlock
<1>5. ASSUME NEW id \in Ids, m = OperatorOf[id], IsNode(View.allNodes[id])
      PROVE  ~Locked(View.allNodes[id], nHeight)
  <2>1. MasternodeOf(base, m) = id
    BY <1>2, <1>5, Zenon DEF Inv, BaseOK, IndexOK, MasternodeOf
  <2>2. BanXorResign(View.allNodes[id]) /\ IsActive(View.allNodes[id], nHeight)
    BY <1>1, <1>2, <2>1, Zenon DEF ContextualCheckProofOfStake
  <2>3. View.allNodes[id] \in CMasternode
    BY <1>5, ChangedNode, Zenon DEF Inv, ViewOK
  <2> QED BY <1>2, <2>2, <2>3, StateExcludes, Zenon
<1>6. block'.minter = m
  BY <1>1, Zenon
<1>7. BlockSpends'
  BY <1>2, <1>4, <1>5, <1>6, Zenon DEF BlockSpends
<1> QED BY <1>3, <1>7, Zenon DEF SpendInv

\* What a transaction of the block has to satisfy.
LEMMA SpendGrows ==
    ASSUME Inv, SpendInv, NEW tx \in TxPool, ConnectTx(tx),
           \A id \in Ids : IsNode(View'.allNodes[id]) =>
              \/ /\ IsNode(View.allNodes[id])
                 /\ \A i \in 1 .. nHeight : Locked(View.allNodes[id], i) => Locked(View'.allNodes[id], i)
                 /\ Locked(View'.allNodes[id], nHeight) => Locked(View.allNodes[id], nHeight)
              \/ id \notin GenesisIds /\ ~OnChain("create", id) /\ ~Locked(View'.allNodes[id], nHeight),
           tx.type = "spend" => /\ tx.id \in GenesisIds \/ OnChain("create", tx.id)
                                /\ IsNode(View'.allNodes[tx.id]) => Locked(View'.allNodes[tx.id], nHeight)
    PROVE  SpendInv'
<1> DEFINE N == View.allNodes
<1>1. /\ base' = base /\ chain' = chain /\ pc = "connect" /\ nHeight' = nHeight /\ tx.id \in Ids
      /\ Len(chain) \in Nat
  BY ConnectTxFacts, Zenon
<1>2. block'.minter = block.minter
  BY Zenon DEF ConnectTx, Inv, TypeOK, Blocks
<1>3. \A id : /\ InBlock(block', "spend", id) <=> InBlock(block, "spend", id) \/ (tx.type = "spend" /\ tx.id = id)
              /\ InBlock(block, "create", id) => InBlock(block', "create", id)
  BY BlockGrows, Zenon
<1>4. /\ \A i \in 1 .. Len(chain) : i \in 1 .. nHeight
      /\ nHeight \in 1 .. nHeight
  BY <1>1, HeightsBelow, Zenon DEF nHeight
<1>5. BlockSpends
  BY <1>1, Zenon DEF SpendInv
<1>6. SpentOK(base.allNodes)' /\ SpentOK(View.allNodes)' /\ CreatedBefore'
  BY <1>1, <1>4, NotSpentBefore, SpentKept, Zenon
<1>7. \A id : OnChain("create", id) => OnChain("create", id)'
  BY <1>1, <1>3, Zenon DEF OnChain
<1>8. ASSUME NEW id \in Ids
      PROVE  /\ InBlock(block', "spend", id) => id \in GenesisIds \/ OnChain("create", id)
             /\ InBlock(block', "spend", id) /\ IsNode(N'[id]) => Locked(N'[id], nHeight)
             /\ block'.minter = OperatorOf[id] /\ IsNode(N'[id]) => ~Locked(N'[id], nHeight)
  <2>1. /\ InBlock(block, "spend", id) => id \in GenesisIds \/ OnChain("create", id)
        /\ InBlock(block, "spend", id) /\ IsNode(N[id]) => Locked(N[id], nHeight)
        /\ block.minter = OperatorOf[id] /\ IsNode(N[id]) => ~Locked(N[id], nHeight)
    BY <1>5, Zenon DEF BlockSpends
  <2>2. IsNode(N'[id]) =>
              \/ /\ IsNode(N[id])
                 /\ Locked(N[id], nHeight) => Locked(N'[id], nHeight)
                 /\ Locked(N'[id], nHeight) => Locked(N[id], nHeight)
              \/ id \notin GenesisIds /\ ~OnChain("create", id) /\ ~Locked(N'[id], nHeight)
    BY <1>4, Zenon
  <2> HIDE DEF N
  <2>3. tx.type = "spend" /\ tx.id = id => /\ id \in GenesisIds \/ OnChain("create", id)
                                           /\ IsNode(N'[id]) => Locked(N'[id], nHeight)
    BY Zenon DEF N
  <2> QED BY <1>2, <1>3, <2>1, <2>2, <2>3, Zenon
<1>9. BlockSpends'
  BY <1>1, <1>7, <1>8, Zenon DEF BlockSpends
<1> QED BY <1>6, <1>9, Zenon DEF SpendInv

\* One node changes, and the others stay.
LEMMA SpendOneNode ==
    ASSUME Inv, SpendInv, NEW tx \in TxPool, ConnectTx(tx), tx.type # "spend", NEW n, Changed(tx.id, n),
           IsNode(n) =>
              \/ /\ IsNode(View.allNodes[tx.id])
                 /\ \A i \in 1 .. nHeight : Locked(View.allNodes[tx.id], i) => Locked(n, i)
                 /\ Locked(n, nHeight) => Locked(View.allNodes[tx.id], nHeight)
              \/ tx.id \notin GenesisIds /\ ~OnChain("create", tx.id) /\ ~Locked(n, nHeight)
    PROVE  SpendInv'
<1>1. tx.id \in Ids
  BY ConnectTxFacts, Zenon
<1>2. View'.allNodes[tx.id] = n /\ \A j \in Ids \ {tx.id} : View'.allNodes[j] = View.allNodes[j]
  BY <1>1, OneNodeChanged, Zenon
<1>3. \A id \in Ids : IsNode(View'.allNodes[id]) =>
         \/ /\ IsNode(View.allNodes[id])
            /\ \A i \in 1 .. nHeight : Locked(View.allNodes[id], i) => Locked(View'.allNodes[id], i)
            /\ Locked(View'.allNodes[id], nHeight) => Locked(View.allNodes[id], nHeight)
         \/ id \notin GenesisIds /\ ~OnChain("create", id) /\ ~Locked(View'.allNodes[id], nHeight)
  BY <1>2, Zenon
<1> QED BY <1>3, SpendGrows, Zenon

\* The transactions of a block.
LEMMA SpendConnectTx ==
    ASSUME Inv, BanInv, SpendInv, NEW tx \in TxPool,
           ConnectCreate(tx) \/ ConnectResign(tx) \/ ConnectCriminal(tx) \/ ConnectSpend(tx)
    PROVE  SpendInv'
<1> DEFINE id == tx.id
           N  == View.allNodes
<1>1. ConnectTx(tx)
  BY Zenon DEF ConnectCreate, ConnectResign, ConnectCriminal, ConnectSpend
<1>2. /\ base' = base /\ pc = "connect" /\ id \in Ids /\ Len(chain) \in Nat /\ nHeight \in Nat
  BY <1>1, ConnectTxFacts, HeightsBelow, Zenon DEF nHeight
<1>3. ASSUME N' = N, tx.type = "spend" => /\ id \in GenesisIds \/ OnChain("create", id)
                                          /\ IsNode(N[id]) => Locked(N[id], nHeight)
      PROVE  SpendInv'
  BY <1>1, <1>3, SpendGrows, Zenon
<1>4. ~(nHeight + ResignDelay <= nHeight) /\ nHeight # NoHeight
  BY <1>2, DelayAssumption DEF NoHeight
<1>5. CASE ConnectCreate(tx)
  <2>1. tx.type # "spend" /\ id \notin GenesisIds /\ ~OnChain("create", id)
    BY <1>5, Zenon DEF ConnectCreate
  <2>2. N' = N \/ Changed(id, FromTx(id, nHeight))
    BY <1>5, CreateEffect, Zenon
  <2>3. ~Locked(FromTx(id, nHeight), nHeight)
    BY Zenon DEF Locked, FromTx
  <2> QED BY <1>1, <1>3, <2>1, <2>2, <2>3, SpendOneNode, Zenon
<1>6. CASE ConnectResign(tx)
  <2> DEFINE n == [N[id] EXCEPT !.resignHeight = nHeight]
  <2>0. tx.type # "spend"
    BY <1>6, Zenon DEF ConnectResign
  <2>1. \/ N' = N
        \/ /\ IsNode(N[id]) /\ N[id] \in CMasternode /\ Changed(id, n)
           /\ N[id].resignHeight = NoHeight /\ N[id].banHeight = NoHeight
    BY <1>6, ResignEffect, Zenon
  <2>2. CASE /\ IsNode(N[id]) /\ N[id] \in CMasternode /\ Changed(id, n)
             /\ N[id].resignHeight = NoHeight /\ N[id].banHeight = NoHeight
    <3>1. n.resignHeight = nHeight /\ n.banHeight = N[id].banHeight
      <4> HIDE DEF N
      <4> QED BY <2>2, Zenon DEF CMasternode
    <3> HIDE DEF n, N
    <3>2. /\ \A i : ~Locked(N[id], i)
          /\ ~Locked(n, nHeight)
      BY <1>4, <2>2, <3>1, Zenon DEF Locked
    <3> QED BY <1>1, <2>0, <2>2, <3>2, SpendOneNode, Zenon DEF N
  <2> QED BY <1>3, <2>0, <2>1, <2>2, Zenon
<1>7. CASE ConnectCriminal(tx)
  <2> DEFINE n == [N[id] EXCEPT !.banHeight = nHeight, !.banTx = <<nHeight, id>>]
  <2>0. tx.type # "spend"
    BY <1>7, Zenon DEF ConnectCriminal
  <2>1. \/ N' = N
        \/ IsNode(N[id]) /\ N[id] \in CMasternode /\ Changed(id, n) /\ N[id].banTx = NullTx
    BY <1>7, CriminalEffect, Zenon
  <2>2. CASE IsNode(N[id]) /\ N[id] \in CMasternode /\ Changed(id, n) /\ N[id].banTx = NullTx
    <3>1. n.banHeight = nHeight /\ n.resignHeight = N[id].resignHeight
      <4> HIDE DEF N
      <4> QED BY <2>2, ZenonT(60) DEF CMasternode
    <3>2. N[id].banHeight = NoHeight
      <4>1. BanOK(N[id], id, pc)
        BY <1>2, <2>2, Zenon DEF BanInv, BansOK
      <4>2. \A h \in Heights : <<h, id>> # NullTx
        BY <1>2, NullTxAssumption, BoundAssumption DEF BanTxs, Heights
      <4> HIDE DEF N
      <4> QED BY <2>2, <4>1, <4>2, Zenon DEF BanOK
    <3> HIDE DEF n, N
    <3>3. /\ \A i : Locked(N[id], i) => Locked(n, i)
          /\ Locked(n, nHeight) => Locked(N[id], nHeight)
      BY <1>4, <3>1, <3>2, Zenon DEF Locked
    <3> QED BY <1>1, <2>0, <2>2, <3>3, SpendOneNode, Zenon DEF N
  <2> QED BY <1>3, <2>0, <2>1, <2>2, Zenon
<1>8. CASE ConnectSpend(tx)
  <2>1. /\ mnview' = mnview /\ HaveCollateral(id) /\ CanSpend(View, id, nHeight)
        /\ IsNode(N[id]) => BanXorResign(N[id])
    BY <1>8, Zenon DEF ConnectSpend, ExistMasternode
  <2>2. N' = N
    BY <1>2, <2>1, Zenon DEF View, ApplyCache
  <2>3. ASSUME IsNode(N[id]) PROVE Locked(N[id], nHeight)
    <3>1. N[id] \in CMasternode
      BY <1>2, <2>3, ChangedNode, Zenon DEF Inv, ViewOK
    <3>2. GetState(N[id], nHeight) \in {"RESIGNED", "BANNED"}
      BY <2>1, <2>3, Zenon DEF CanSpend, ExistMasternode
    <3> QED BY <1>2, <2>1, <2>3, <3>1, <3>2, StateExcludes, Zenon
  <2> QED BY <1>3, <2>1, <2>2, <2>3, Zenon DEF HaveCollateral
<1> QED BY <1>5, <1>6, <1>7, <1>8, Zenon

\* The block joins the chain.
LEMMA SpendConnectDone == ASSUME Inv, SpendInv, ConnectTipDone PROVE SpendInv'
<1> DEFINE N == View.allNodes
           h == nHeight
           B == base'.allNodes
<1>1. pc = "connect" /\ pc' = "idle" /\ chain' = Append(chain, block)
  BY Zenon DEF ConnectTipDone
<1>2. PICK id \in Ids :
        LET n == [N[id] EXCEPT !.mintedBlocks = @ + 1]
        IN  /\ IsNode(N[id]) /\ N[id] \in CMasternode
            /\ base'.allNodes = [N EXCEPT ![id] = n] /\ View' = base'
  BY ConnectTipEffect, Zenon
<1>3. N \in NodeMaps
  BY ViewTypes, Zenon DEF Inv
<1>4. SpentOK(N) /\ CreatedBefore /\ BlockSpends
  BY <1>1, Zenon DEF SpendInv
<1>5. /\ Len(chain) \in Nat /\ Len(chain') = h /\ h = Len(chain) + 1
      /\ \A j \in 1 .. Len(chain) : chain'[j] = chain[j]
      /\ chain'[h] = block
  BY <1>1 DEF Inv, TypeOK, nHeight
<1>6. \A j \in Ids : IsNode(N[j]) => N[j] \in CMasternode
  BY ChangedNode, Zenon DEF Inv, ViewOK
<1> HIDE DEF N
<1>7. \A j \in Ids : IsNode(B[j]) =>
         /\ IsNode(N[j])
         /\ B[j].resignHeight = N[j].resignHeight /\ B[j].banHeight = N[j].banHeight
  BY <1>2, <1>3, SMTT(30) DEF NodeMaps, CMasternode
<1> HIDE DEF h, B
<1>8. \A j \in Ids : \A i : IsNode(B[j]) => IsNode(N[j]) /\ (Locked(N[j], i) => Locked(B[j], i))
  BY <1>7, Zenon DEF Locked
<1>9. /\ \A j \in 1 .. h : j \in 1 .. Len(chain) \/ j = h
      /\ \A j \in 1 .. Len(chain) : j \in Nat /\ j <= h /\ j \in 1 .. h /\ 1 .. j \subseteq 1 .. Len(chain)
      /\ \A i \in 1 .. h : \A j \in i .. h :
            j = h \/ (i \in 1 .. Len(chain) /\ j \in i .. Len(chain) /\ j \in 1 .. Len(chain))
      /\ h \in Nat /\ h \in 1 .. h
  BY <1>5
<1>10. ASSUME NEW i \in 1 .. h, NEW j \in Ids, InBlock(chain'[i], "spend", j), IsNode(N[j]) PROVE Locked(N[j], i)
  <2>1. CASE i = h
    BY <1>4, <1>5, <1>10, <2>1, Zenon DEF BlockSpends, N, h
  <2>2. CASE i \in 1 .. Len(chain)
    BY <1>4, <1>5, <1>10, <2>2, Zenon DEF SpentOK
  <2> QED BY <1>9, <2>1, <2>2, Zenon
<1>11. ASSUME NEW i \in 1 .. h, NEW j \in Ids, InBlock(chain'[i], "spend", j), IsNode(N[j]), NEW k \in i .. h
       PROVE  chain'[k].minter # OperatorOf[j]
  <2>1. CASE k = h
    <3>1. Locked(N[j], h)
      <4>1. i \in Nat /\ i <= h
        BY <1>9
      <4> QED BY <1>6, <1>9, <1>10, <1>11, <4>1, LockedLater, Zenon
    <3> QED BY <1>4, <1>5, <1>11, <2>1, <3>1, Zenon DEF BlockSpends, N, h
  <2>2. CASE i \in 1 .. Len(chain) /\ k \in i .. Len(chain) /\ k \in 1 .. Len(chain)
    BY <1>4, <1>5, <1>11, <2>2, Zenon DEF SpentOK
  <2> QED BY <1>9, <2>1, <2>2, Zenon
<1>12. \A i \in 1 .. h, j \in Ids : InBlock(chain'[i], "spend", j) /\ IsNode(B[j]) =>
          Locked(B[j], i) /\ \A k \in i .. h : chain'[k].minter # OperatorOf[j]
  BY <1>8, <1>10, <1>11, Zenon
<1>13. SpentOK(base.allNodes)'
  BY <1>5, <1>12, Zenon DEF SpentOK, B
<1>14. SpentOK(View.allNodes)'
  BY <1>2, <1>13, Zenon
<1>15. CreatedBefore'
  <2> SUFFICES ASSUME NEW i \in 1 .. h, NEW j \in Ids, InBlock(chain'[i], "spend", j), j \notin GenesisIds
               PROVE  \E k \in 1 .. i : InBlock(chain'[k], "create", j)
    BY <1>5, Zenon DEF CreatedBefore
  <2>1. CASE i = h
    <3>1. InBlock(block, "create", j) \/ \E k \in 1 .. Len(chain) : InBlock(chain[k], "create", j)
      BY <1>4, <1>5, <2>1, Zenon DEF BlockSpends, OnChain
    <3> QED BY <1>5, <1>9, <2>1, <3>1, Zenon
  <2>2. CASE i \in 1 .. Len(chain)
    <3>1. \E k \in 1 .. i : InBlock(chain[k], "create", j)
      BY <1>4, <1>5, <2>2, Zenon DEF CreatedBefore
    <3> QED BY <1>5, <1>9, <2>2, <3>1, Zenon
  <2> QED BY <1>9, <2>1, <2>2, Zenon
<1> QED BY <1>1, <1>13, <1>14, <1>15, Zenon DEF SpendInv

\* A resignation or ban of the last block is no reason for a spend on the chain.
LEMMA NotLockedYet ==
    ASSUME Len(chain) \in Nat, NEW i \in 1 .. Len(chain)
    PROVE  ~(Len(chain) + ResignDelay <= i)
BY DelayAssumption

\* Lifting a ban of the last block.
LEMMA SpendDisconnectTx == ASSUME Inv, BanInv, SpendInv, DisconnectTx PROVE SpendInv'
<1> DEFINE N  == View.allNodes
           id == block.txs[cursor].id
           n  == [N[id] EXCEPT !.banHeight = NoHeight, !.banTx = NullTx]
<1>1. base' = base /\ chain' = chain /\ pc = "disconnect" /\ pc' = "disconnect"
  BY ZenonT(60) DEF DisconnectTx
<1>2. /\ block.txs[cursor] \in Txs
      /\ \/ N' = N
         \/ /\ IsNode(N[id]) /\ N[id] \in CMasternode /\ Changed(id, n)
            /\ N[id].banTx = <<Len(chain), id>>
  BY UnbanEffect, Zenon
<1>3. id \in Ids
  BY <1>2, ZenonT(60) DEF Txs
<1> HIDE DEF id
<1>5. CASE N' = N
  BY <1>1, <1>5, SpentKept, Zenon DEF SpendInv
<1>6. CASE /\ IsNode(N[id]) /\ N[id] \in CMasternode /\ Changed(id, n)
           /\ N[id].banTx = <<Len(chain), id>>
  <2>1. n.resignHeight = N[id].resignHeight
    <3> HIDE DEF N
    <3> QED BY <1>6, Zenon DEF CMasternode
  <2>2. N[id].banHeight = Len(chain) /\ Len(chain) \in Nat
    <3>1. BanOK(N[id], id, pc) /\ Len(chain) \in Nat
      BY <1>3, <1>6 DEF BanInv, BansOK, Inv, TypeOK
    <3>2. \A h : <<h, id>> = <<Len(chain), id>> => h = Len(chain)
      BY Zenon
    <3>3. <<Len(chain), id>> # NullTx
      BY <1>3, <3>1, NullTxAssumption DEF BanTxs
    <3> HIDE DEF N
    <3> QED BY <1>6, <3>1, <3>2, <3>3, Zenon DEF BanOK
  <2>3. N'[id] = n /\ \A j \in Ids \ {id} : N'[j] = N[j]
    BY <1>3, <1>6, OneNodeChanged, Zenon
  <2> HIDE DEF n, N
  <2>4. \A i \in 1 .. Len(chain) : Locked(N[id], i) => Locked(n, i)
    BY <2>1, <2>2, NotLockedYet, Zenon DEF Locked
  <2>5. \A j \in Ids : IsNode(N'[j]) => IsNode(N[j]) /\ \A i \in 1 .. Len(chain) : Locked(N[j], i) => Locked(N'[j], i)
    BY <1>6, <2>3, <2>4, Zenon
  <2> QED BY <1>1, <2>5, SpentKept, Zenon DEF SpendInv, N
<1> QED BY <1>2, <1>5, <1>6

\* Deleting a node of the last block, or taking back a resignation of the last block.
LEMMA SpendUndoTx == ASSUME Inv, SpendInv, UndoTx PROVE SpendInv'
<1> DEFINE N  == View.allNodes
<1>1. base' = base /\ chain' = chain /\ pc' = "undo" /\ Len(chain) \in Nat
  BY DEF UndoTx, Inv, TypeOK
<1>2. CASE N' = N
  BY <1>1, <1>2, SpentKept, Zenon DEF SpendInv
<1>3. ASSUME NEW id \in Ids, NEW n, IsNode(N[id]), Changed(id, n),
             IsNode(n) => \A i \in 1 .. Len(chain) : Locked(N[id], i) => Locked(n, i)
      PROVE  SpendInv'
  <2>1. N'[id] = n /\ \A j \in Ids \ {id} : N'[j] = N[j]
    BY <1>3, OneNodeChanged, Zenon
  <2>2. \A j \in Ids : IsNode(N'[j]) => IsNode(N[j]) /\ \A i \in 1 .. Len(chain) : Locked(N[j], i) => Locked(N'[j], i)
    <3> HIDE DEF N
    <3> QED BY <1>3, <2>1, Zenon
  <2> QED BY <1>1, <2>2, SpentKept, Zenon DEF SpendInv
<1>4. ASSUME NEW id \in Ids, IsNode(N[id]), Changed(id, EmptyNode) PROVE SpendInv'
  <2>1. ~IsNode(EmptyNode)
    BY Zenon DEF IsNode
  <2> QED BY <1>3, <1>4, <2>1, Zenon
<1>5. ASSUME NEW id \in Ids, IsNode(N[id]), N[id] \in CMasternode, N[id].resignHeight = Len(chain),
             Changed(id, [N[id] EXCEPT !.resignHeight = NoHeight])
      PROVE  SpendInv'
  <2> DEFINE n == [N[id] EXCEPT !.resignHeight = NoHeight]
  <2>1. n.banHeight = N[id].banHeight
    <3> HIDE DEF N
    <3> QED BY <1>5, Zenon DEF CMasternode
  <2>2. Changed(id, n)
    BY <1>5, Zenon
  <2> HIDE DEF n
  <2>3. \A i \in 1 .. Len(chain) : Locked(N[id], i) => Locked(n, i)
    <3> HIDE DEF N
    <3> QED BY <1>1, <1>5, <2>1, NotLockedYet, Zenon DEF Locked
  <2> QED BY <1>3, <1>5, <2>2, <2>3, Zenon
<1>6. \/ N' = N
      \/ \E id \in Ids : IsNode(N[id]) /\ Changed(id, EmptyNode)
      \/ \E id \in Ids : /\ IsNode(N[id]) /\ N[id] \in CMasternode /\ N[id].resignHeight = Len(chain)
                         /\ Changed(id, [N[id] EXCEPT !.resignHeight = NoHeight])
  BY UndoEffect, Zenon
<1> QED BY <1>2, <1>4, <1>5, <1>6, Zenon

\* The last block leaves the chain.
LEMMA SpendDisconnectDone == ASSUME Inv, SpendInv, DisconnectTipDone PROVE SpendInv'
<1> DEFINE N == View.allNodes
           h == Len(chain)
           B == base'.allNodes
<1>1. pc = "undo" /\ pc' = "idle" /\ chain' = [j \in 1 .. h - 1 |-> chain[j]]
  BY Zenon DEF DisconnectTipDone
<1>2. PICK id \in Ids :
        LET n == [N[id] EXCEPT !.mintedBlocks = @ - 1]
        IN  /\ IsNode(N[id]) /\ N[id] \in CMasternode
            /\ base'.allNodes = [N EXCEPT ![id] = n] /\ View' = base'
  BY DisconnectTipEffect, Zenon
<1>3. N \in NodeMaps
  BY ViewTypes, Zenon DEF Inv
<1>4. SpentOK(N) /\ CreatedBefore
  BY Zenon DEF SpendInv
<1>5. /\ h \in Nat /\ h > 0 /\ Len(chain') = h - 1
      /\ \A j \in 1 .. h - 1 : chain'[j] = chain[j]
  BY <1>1 DEF Inv, TypeOK, PhaseOK
<1> HIDE DEF N
<1>6. \A j \in Ids : IsNode(B[j]) =>
         /\ IsNode(N[j])
         /\ B[j].resignHeight = N[j].resignHeight /\ B[j].banHeight = N[j].banHeight
  BY <1>2, <1>3, SMTT(30) DEF NodeMaps, CMasternode
<1>7. /\ \A i \in 1 .. h - 1 : i \in 1 .. h /\ i .. h - 1 \subseteq i .. h
      /\ \A i \in 1 .. h - 1 : i .. h - 1 \subseteq 1 .. h - 1 /\ 1 .. i \subseteq 1 .. h - 1
  BY <1>5
<1> HIDE DEF B
<1>8. \A j \in Ids : \A i : IsNode(B[j]) => IsNode(N[j]) /\ (Locked(N[j], i) => Locked(B[j], i))
  BY <1>6, Zenon DEF Locked
<1>9. ASSUME NEW i \in 1 .. h - 1, NEW j \in Ids, InBlock(chain'[i], "spend", j), IsNode(B[j])
      PROVE  Locked(B[j], i) /\ \A k \in i .. h - 1 : chain'[k].minter # OperatorOf[j]
  <2>1. InBlock(chain[i], "spend", j) /\ IsNode(N[j]) /\ i \in 1 .. h
    BY <1>5, <1>7, <1>8, <1>9, ZenonT(60)
  <2>2. Locked(N[j], i) /\ \A k \in i .. h : chain[k].minter # OperatorOf[j]
    BY <1>4, <2>1, Zenon DEF SpentOK
  <2>3. \A k \in i .. h - 1 : chain'[k] = chain[k] /\ k \in i .. h
    BY <1>5, <1>7, Zenon
  <2> QED BY <1>8, <1>9, <2>2, <2>3, Zenon
<1>10. SpentOK(base.allNodes)'
  BY <1>5, <1>9, Zenon DEF SpentOK, B
<1>11. SpentOK(View.allNodes)'
  BY <1>2, <1>10, Zenon
<1>12. CreatedBefore'
  <2> SUFFICES ASSUME NEW i \in 1 .. h - 1, NEW j \in Ids, InBlock(chain'[i], "spend", j), j \notin GenesisIds
               PROVE  \E k \in 1 .. i : InBlock(chain'[k], "create", j)
    BY <1>5, Zenon DEF CreatedBefore
  <2>1. \E k \in 1 .. i : InBlock(chain[k], "create", j)
    BY <1>4, <1>5, <1>7, Zenon DEF CreatedBefore
  <2> QED BY <1>5, <1>7, <2>1, Zenon
<1> QED BY <1>1, <1>10, <1>11, <1>12, Zenon DEF SpendInv

\* Nothing is spent at genesis.
LEMMA SpendInit == Init => SpendInv
BY DEF Init, SpendInv, SpentOK, CreatedBefore

\* Every step keeps what the exclusion of staking and spending rests on.
LEMMA SpendStep == Inv /\ BanInv /\ SpendInv /\ [Next]_vars => SpendInv'
<1> SUFFICES ASSUME Inv, BanInv, SpendInv, [Next]_vars PROVE SpendInv'
  BY Zenon
<1>1. CASE ConnectBlockFails
  <2>1. base' = base /\ chain' = chain /\ pc' = "idle"
    BY <1>1, Zenon DEF ConnectBlockFails
  <2>2. View' = base'
    BY <2>1, NextInv, IdleNodes, Zenon
  <2> QED BY <2>1, <2>2, Zenon DEF SpendInv, SpentOK, CreatedBefore
<1>2. CASE DisconnectBlock \/ OnUndoBlock
  <2>1. base' = base /\ chain' = chain /\ mnview' = mnview /\ pc' # "connect"
    BY <1>2, Zenon DEF DisconnectBlock, OnUndoBlock, Inv, PhaseOK
  <2>2. View' = View
    BY <2>1, Zenon DEF View, ApplyCache
  <2> QED BY <2>1, <2>2, SpentKept, Zenon DEF SpendInv
<1>3. CASE \/ \E minter \in Keys, height \in Heights : AddCriminalProof(minter, height)
           \/ AssertFails \/ UNCHANGED vars
  <2>1. base' = base /\ chain' = chain /\ mnview' = mnview /\ pc' = pc /\ block' = block
    BY <1>3, ZenonT(60) DEF AddCriminalProof, AssertFails, vars
  <2>2. View' = View
    BY <2>1, Zenon DEF View, ApplyCache
  <2>3. pc' = "connect" => BlockSpends'
    BY <2>1, <2>2, Zenon DEF SpendInv, BlockSpends, OnChain, nHeight
  <2> QED BY <2>1, <2>2, <2>3, SpentKept, ZenonT(60) DEF SpendInv
<1> QED
  BY <1>1, <1>2, <1>3, SpendConnectBlock, SpendConnectTx, SpendConnectDone,
     SpendDisconnectTx, SpendUndoTx, SpendDisconnectDone, Zenon DEF Next
=============================================================================
