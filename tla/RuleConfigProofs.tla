-------------------------- MODULE RuleConfigProofs --------------------------
(***************************************************************************)
(* Proof that memory and database agree about overrides and custom rules,  *)
(* for every number of rules and of requests and every order of their      *)
(* steps, of failing writes and of restarts, but for the fraction of a     *)
(* second that the table does not keep of a timing.                        *)
(***************************************************************************)
EXTENDS RuleConfig, TLAPS

(* What loadCustom makes of a row.                                         *)
Loaded(n) == IF rows[n] # Unset /\ buildCustom(rows[n]) THEN rows[n] ELSE Unset

RulesTyped ==
    /\ custom \in [Custom -> CustomRows \cup {Unset}] /\ rows \in [Custom -> CustomRows \cup {Unset}]
    /\ \A n \in Custom : custom[n] # Unset => buildCustom(custom[n])
    /\ \A n \in Custom : rows[n] # Unset /\ rows[n].kind = "builtin" => rows[n].base \in Builtin
    /\ \A n \in Custom : rows[n] # Unset => Stored(rows[n]) = rows[n]

Shape(r) ==
    \/ r = NoEdit
    \/ r.pc = "persist" /\ r.key = "overrides"
    \/ r.pc \in {"upsert", "install"} /\ r.key \in Custom /\ r.value \in CustomRows /\ buildCustom(r.value)
    \/ r.pc \in {"delete", "uninstall"} /\ r.key \in Custom

EditsTyped ==
    /\ edit = [e \in Editors |-> [pc |-> edit[e].pc, key |-> edit[e].key, value |-> edit[e].value]]
    /\ \A e \in Editors : Shape(edit[e])

(* Two requests that write the same thing at once are known.               *)
OneWriter ==
    \A d, e \in Editors : d # e /\ edit[d].key = edit[e].key /\ edit[d].key # Unset => edit[d].key \in raced

(* A request alone about the overrides holds them as they are.             *)
Snapshot == \A e \in Editors : edit[e].pc = "persist" /\ "overrides" \notin raced => edit[e].value = cfg

(* One alone about a custom rule is about to do in memory what it has done *)
(* in the database.                                                        *)
RowsFirst ==
    \A e \in Editors : edit[e].key \notin raced =>
        /\ edit[e].pc = "install" => rows[edit[e].key] = Stored(edit[e].value)
        /\ edit[e].pc = "uninstall" => rows[edit[e].key] = Unset

Installing(n) == \E e \in Editors : edit[e].key = n /\ edit[e].pc \in {"install", "uninstall"}

OverridesAgree == ~Writing("overrides") /\ "overrides" \notin raced /\ ~unsaved => cfg = storedCfg
ListsAgree == \A n \in Custom : ~Installing(n) /\ n \notin raced => StoredForm(custom[n]) = Loaded(n)

RuleInv == RulesTyped /\ EditsTyped /\ OneWriter /\ Snapshot /\ RowsFirst /\ OverridesAgree /\ ListsAgree
---------------------------------------------------------------------------
(* Lemmas *)

(* A multiple of n is rounded down to itself.                              *)
LEMMA Rounded ==
    ASSUME NEW n \in Nat \ {0}, NEW t \in Int
    PROVE  n * (t \div n) \in Int /\ n * ((n * (t \div n)) \div n) = n * (t \div n)
  <1>1. PICK q \in Int : q = t \div n
      BY SMT
  <1>2. PICK m \in Int : m = n * q
      BY SMT
  <1>3. PICK d \in Int, r \in Int : d = m \div n /\ r = m % n /\ m = n * d + r /\ 0 <= r /\ r < n
      BY SMT
  <1>4. n * (d + 1) = n * d + n /\ n * (q + 1) = n * q + n
      BY SMT
  <1>5. ~(q < d)
    <2>1. q < d => n * (q + 1) <= n * d
        BY SMT
    <2> QED BY <1>2, <1>3, <1>4, <2>1, SMT
  <1>6. ~(d < q)
    <2>1. d < q => n * (d + 1) <= n * q
        BY SMT
    <2> QED BY <1>2, <1>3, <1>4, <2>1, SMT
  <1>7. d = q
      BY <1>5, <1>6
  <1> QED
      BY <1>1, <1>2, <1>3, <1>7

(* The stored form of a row is a row, and what is stored of it is itself.  *)
LEMMA StoredRow ==
    ASSUME NEW row \in CustomRows
    PROVE  /\ Stored(row) \in CustomRows /\ Stored(row).kind = row.kind /\ Stored(row).base = row.base
           /\ Stored(Stored(row)) = Stored(row) /\ Stored(row) # Unset
           /\ StoredForm(row) = Stored(row)
  <1>1. row.interval \in Int /\ row.kind \in {"sql", "builtin"} /\ row.base \in Bases /\ row.rest \in Details
        /\ row.enabled \in Switches
        /\ row = [kind |-> row.kind, base |-> row.base, rest |-> row.rest, enabled |-> row.enabled, interval |-> row.interval]
      BY DEF CustomRows
  <1>2. PICK v : v = Second * (row.interval \div Second)
      OBVIOUS
  <1>3. v \in Int /\ Second * (v \div Second) = v
      BY <1>1, <1>2, Rounded, RuleConfigAssumption
  <1>4. PICK s : s = [kind |-> row.kind, base |-> row.base, rest |-> row.rest, enabled |-> row.enabled, interval |-> v]
      OBVIOUS
  <1>5. Stored(row) = s
    <2>1. Stored(row) = [row EXCEPT !.interval = v]
        BY <1>2, Zenon DEF Stored
    <2> QED BY <1>1, <1>4, <2>1
  <1>6. s \in CustomRows /\ s.kind = row.kind /\ s.base = row.base /\ s.interval = v
      BY <1>1, <1>3, <1>4 DEF CustomRows
  <1>7. Stored(s) = [s EXCEPT !.interval = v]
      BY <1>3, <1>6, Zenon DEF Stored
  <1>8. Stored(s) = s
      BY <1>4, <1>7
  <1> QED
      BY <1>5, <1>6, <1>8, RuleConfigAssumption DEF StoredForm

(* A new server agrees with its empty tables.                              *)
LEMMA RuleStart == RuleConfigInit => RuleInv
  <1> SUFFICES ASSUME RuleConfigInit PROVE RuleInv
      OBVIOUS
  <1>1. RulesTyped
      BY DEF RuleConfigInit, RulesTyped
  <1>2. EditsTyped
      BY DEF RuleConfigInit, EditsTyped, Shape, NoEdit
  <1>3. \A e \in Editors : edit[e].pc = "none" /\ edit[e].key = Unset
      BY DEF RuleConfigInit, NoEdit
  <1>4. OneWriter /\ Snapshot /\ RowsFirst
      BY <1>3 DEF OneWriter, Snapshot, RowsFirst
  <1>5. OverridesAgree /\ ListsAgree
      BY DEF RuleConfigInit, OverridesAgree, ListsAgree, Loaded, StoredForm
  <1> QED
      BY <1>1, <1>2, <1>4, <1>5 DEF RuleInv

(* What a request may be.                                                  *)
LEMMA ShapeRead ==
    /\ NoEdit.pc = "none" /\ NoEdit.key = Unset
    /\ \A r : Shape(r) =>
         /\ r.pc = "persist" <=> r.key = "overrides"
         /\ r.key \in Custom <=> r.pc \in {"upsert", "install", "delete", "uninstall"}
         /\ r.key = Unset <=> r = NoEdit
  <1>1. NoEdit.pc = "none" /\ NoEdit.key = Unset
      BY DEF NoEdit
  <1>2. Unset \notin Custom /\ "overrides" \notin Custom /\ "overrides" # Unset
      BY RuleConfigAssumption
  <1> QED
      BY <1>1, <1>2 DEF Shape

(* One request is another one now.                                         *)
LEMMA EditsSet ==
    ASSUME EditsTyped, UNCHANGED retired, NEW e \in Editors, NEW r, r = [pc |-> r.pc, key |-> r.key, value |-> r.value],
           Shape(r), edit' = [edit EXCEPT ![e] = r]
    PROVE  EditsTyped' /\ edit'[e] = r /\ \A d \in Editors : d # e => edit'[d] = edit[d]
  <1>1. edit'[e] = r /\ \A d \in Editors : d # e => edit'[d] = edit[d]
      BY DEF EditsTyped
  <1>2. \A d \in Editors : Shape(edit'[d])
      BY <1>1 DEF EditsTyped
  <1>3. edit' = [d \in Editors |-> [pc |-> edit'[d].pc, key |-> edit'[d].key, value |-> edit'[d].value]]
    <2>1. edit' = [d \in Editors |-> edit'[d]]
        BY DEF EditsTyped
    <2>2. \A d \in Editors : edit'[d] = [pc |-> edit'[d].pc, key |-> edit'[d].key, value |-> edit'[d].value]
        BY <1>1 DEF EditsTyped
    <2> QED BY <2>1, <2>2
  <1>4. \A d \in Editors : Shape(edit[d])'
      BY <1>2 DEF Shape, buildCustom, Present
  <1> QED
      BY <1>1, <1>3, <1>4 DEF EditsTyped

(* A request begins: nothing is written yet, except an override in memory. *)
LEMMA RequestBegins ==
    ASSUME RuleInv, NEW e \in Editors, NEW pc \in {"persist", "upsert", "delete"}, NEW key, NEW value,
           BeginEdit(e, pc, key, value),
           pc = "persist" => key = "overrides" /\ value = cfg',
           pc # "persist" => key \in Custom /\ cfg' = cfg,
           pc = "upsert" => value \in CustomRows /\ buildCustom(value),
           UNCHANGED <<retired, custom, rows, storedCfg, unsaved>>
    PROVE  RuleInv'
  <1> DEFINE r == [pc |-> pc, key |-> key, value |-> value]
  <1>1. r.pc = pc /\ r.key = key /\ r.value = value /\ Shape(r)
      BY DEF Shape
  <1>2. edit[e] = NoEdit /\ edit' = [edit EXCEPT ![e] = r]
        /\ raced' = IF \E d \in Editors : edit[d].key = key THEN raced \cup {key} ELSE raced
      BY DEF BeginEdit
  <1>3. r = [pc |-> r.pc, key |-> r.key, value |-> r.value]
      BY <1>1
  <1> HIDE DEF r
  <1>4. EditsTyped' /\ edit'[e] = r /\ \A d \in Editors : d # e => edit'[d] = edit[d]
      BY <1>1, <1>2, <1>3, EditsSet DEF RuleInv
  <1>5. raced \subseteq raced' /\ \A d \in Editors : edit[d].key = key => key \in raced'
      BY <1>2
  <1>6. RulesTyped'
      BY DEF RuleInv, RulesTyped, buildCustom, Present
  <1>7. OneWriter'
      BY <1>1, <1>4, <1>5 DEF RuleInv, OneWriter
  <1>8. Snapshot'
    <2> SUFFICES ASSUME NEW d \in Editors, edit'[d].pc = "persist", "overrides" \notin raced' PROVE edit'[d].value = cfg'
        BY DEF Snapshot
    <2>1. CASE d = e
        BY <1>1, <1>4, <2>1
    <2>2. CASE d # e
      <3>1. edit'[d] = edit[d] /\ edit[d].key = "overrides" /\ edit[d].value = cfg
          BY <1>4, <1>5, <2>2, ShapeRead DEF RuleInv, EditsTyped, Snapshot
      <3>2. pc # "persist"
          BY <1>5, <3>1
      <3> QED BY <3>1, <3>2
    <2> QED BY <2>1, <2>2
  <1>9. RowsFirst'
      BY <1>1, <1>4, <1>5 DEF RuleInv, RowsFirst
  <1>10. OverridesAgree'
    <2> SUFFICES ASSUME ~Writing("overrides")', "overrides" \notin raced', ~unsaved' PROVE cfg' = storedCfg'
        BY DEF OverridesAgree
    <2>1. pc # "persist"
        BY <1>1, <1>4 DEF Writing
    <2>2. ~Writing("overrides")
        BY <1>2, <1>4, ShapeRead, RuleConfigAssumption DEF Writing
    <2> QED BY <1>5, <2>1, <2>2 DEF RuleInv, OverridesAgree
  <1>11. ListsAgree'
    <2> SUFFICES ASSUME NEW n \in Custom, ~Installing(n)', n \notin raced' PROVE StoredForm(custom'[n]) = Loaded(n)'
        BY DEF ListsAgree
    <2>1. ~Installing(n)
        BY <1>2, <1>4, ShapeRead DEF Installing
    <2>2. StoredForm(custom[n]) = Loaded(n)
        BY <1>5, <2>1 DEF RuleInv, ListsAgree
    <2> QED BY <2>2 DEF Loaded, buildCustom, Present
  <1> QED
      BY <1>4, <1>6, <1>7, <1>8, <1>9, <1>10, <1>11 DEF RuleInv

(* Nothing of it is touched.                                               *)
LEMMA RulesIdle ==
    ASSUME RuleInv, UNCHANGED <<retired, cfg, custom, storedCfg, rows, edit, raced, unsaved>> PROVE RuleInv'
  BY DEF RuleInv, RulesTyped, EditsTyped, Shape, OneWriter, Snapshot, RowsFirst, OverridesAgree, ListsAgree, Installing,
         Writing, Loaded, buildCustom, Present

(* A request goes on or ends: it writes what it has announced, or nothing. *)
LEMMA RequestMovesOn ==
    ASSUME RuleInv, NEW e \in Editors, NEW q, q = [pc |-> q.pc, key |-> q.key, value |-> q.value], Shape(q),
           q = NoEdit \/ (q.key = edit[e].key /\ q.value = edit[e].value /\ q.pc # "persist"),
           edit' = [edit EXCEPT ![e] = q], UNCHANGED <<retired, raced>>
    PROVE  /\ EditsTyped' /\ OneWriter' /\ edit'[e] = q /\ \A d \in Editors : d # e => edit'[d] = edit[d]
           /\ (cfg' = cfg => Snapshot')
           /\ \A d \in Editors : d # e /\ edit[d].key = edit[e].key /\ edit[e].key # Unset => edit[d].key \in raced'
           /\ Shape(edit[e])
  <1>1. EditsTyped' /\ edit'[e] = q /\ \A d \in Editors : d # e => edit'[d] = edit[d]
      BY EditsSet DEF RuleInv
  <1>2. OneWriter'
      BY <1>1, ShapeRead DEF RuleInv, OneWriter
  <1>3. cfg' = cfg => Snapshot'
      BY <1>1, ShapeRead DEF RuleInv, Snapshot
  <1>4. Shape(edit[e])
      BY DEF RuleInv, EditsTyped
  <1> QED
      BY <1>1, <1>2, <1>3, <1>4 DEF RuleInv, OneWriter

(* NoEdit is a request of the right shape.                                 *)
LEMMA NoEditShape == Shape(NoEdit) /\ NoEdit = [pc |-> NoEdit.pc, key |-> NoEdit.key, value |-> NoEdit.value]
  BY DEF Shape, NoEdit

(* The snapshot of the overrides is stored, or is not.                     *)
LEMMA PersistStep == ASSUME RuleInv, NEW e \in Editors, PersistOverrides(e) PROVE RuleInv'
  <1>1. /\ edit[e].pc = "persist" /\ edit' = [edit EXCEPT ![e] = NoEdit]
        /\ UNCHANGED <<retired, cfg, custom, rows, raced>>
        /\ (storedCfg' = edit[e].value /\ unsaved' = FALSE) \/ (unsaved' = TRUE /\ storedCfg' = storedCfg)
      BY DEF PersistOverrides, AtEdit, EditDone, engineVars
  <1>2. /\ EditsTyped' /\ OneWriter' /\ edit'[e] = NoEdit /\ \A d \in Editors : d # e => edit'[d] = edit[d]
        /\ Snapshot' /\ Shape(edit[e])
      BY <1>1, NoEditShape, RequestMovesOn
  <1>3. RulesTyped'
      BY <1>1 DEF RuleInv, RulesTyped, buildCustom, Present
  <1>4. RowsFirst'
      BY <1>1, <1>2, ShapeRead DEF RuleInv, RowsFirst
  <1>5. OverridesAgree'
      BY <1>1 DEF RuleInv, OverridesAgree, Snapshot
  <1>6. ListsAgree'
    <2> SUFFICES ASSUME NEW n \in Custom, ~Installing(n)', n \notin raced' PROVE StoredForm(custom'[n]) = Loaded(n)'
        BY DEF ListsAgree
    <2>1. ~Installing(n)
        BY <1>1, <1>2 DEF Installing
    <2>2. StoredForm(custom[n]) = Loaded(n)
        BY <1>1, <2>1 DEF RuleInv, ListsAgree
    <2> QED BY <1>1, <2>2 DEF Loaded, buildCustom, Present
  <1> QED
      BY <1>2, <1>3, <1>4, <1>5, <1>6 DEF RuleInv

(* A row of custom_rules is written or deleted, or is not.                 *)
LEMMA RowStep ==
    ASSUME RuleInv, NEW e \in Editors, UpsertCustomRule(e) \/ DeleteCustomRule(e) PROVE RuleInv'
  <1>0. Shape(edit[e]) /\ edit[e] = [pc |-> edit[e].pc, key |-> edit[e].key, value |-> edit[e].value]
      BY DEF RuleInv, EditsTyped
  <1>1. PICK k \in Custom : k = edit[e].key
      BY <1>0, ShapeRead DEF UpsertCustomRule, DeleteCustomRule, AtEdit
  <1>2. PICK q : /\ q = [pc |-> q.pc, key |-> q.key, value |-> q.value] /\ Shape(q) /\ edit' = [edit EXCEPT ![e] = q]
                 /\ \/ q = NoEdit /\ rows' = rows
                    \/ /\ q.pc = "install" /\ q.key = k /\ q.value = edit[e].value /\ edit[e].pc = "upsert"
                       /\ rows' = [rows EXCEPT ![k] = Stored(edit[e].value)]
                    \/ /\ q.pc = "uninstall" /\ q.key = k /\ q.value = edit[e].value /\ edit[e].pc = "delete"
                       /\ rows' = [rows EXCEPT ![k] = Unset]
    <2>1. CASE EditDone(e) /\ rows' = rows
        BY <2>1, NoEditShape DEF EditDone
    <2>2. CASE UpsertCustomRule(e) /\ rows' = [rows EXCEPT ![k] = Stored(edit[e].value)] /\ EditNext(e, "install")
      <3>1. PICK q : q = [pc |-> "install", key |-> k, value |-> edit[e].value]
          OBVIOUS
      <3>2. q.pc = "install" /\ q.key = k /\ q.value = edit[e].value /\ edit[e].pc = "upsert"
          BY <2>2, <3>1 DEF UpsertCustomRule, AtEdit
      <3>3. edit[e].value \in CustomRows /\ buildCustom(edit[e].value)
          BY <1>0, <3>2, ShapeRead DEF Shape
      <3>4. edit' = [edit EXCEPT ![e] = q]
        <4>1. [edit[e] EXCEPT !.pc = "install"] = q
            BY <1>0, <1>1, <3>1
        <4> QED BY <2>2, <4>1 DEF EditNext
      <3> QED BY <2>2, <3>1, <3>2, <3>3, <3>4 DEF Shape
    <2>3. CASE DeleteCustomRule(e) /\ rows' = [rows EXCEPT ![k] = Unset] /\ EditNext(e, "uninstall")
      <3>1. PICK q : q = [pc |-> "uninstall", key |-> k, value |-> edit[e].value]
          OBVIOUS
      <3>2. q.pc = "uninstall" /\ q.key = k /\ q.value = edit[e].value /\ edit[e].pc = "delete"
          BY <2>3, <3>1 DEF DeleteCustomRule, AtEdit
      <3>3. edit' = [edit EXCEPT ![e] = q]
        <4>1. [edit[e] EXCEPT !.pc = "uninstall"] = q
            BY <1>0, <1>1, <3>1
        <4> QED BY <2>3, <4>1 DEF EditNext
      <3> QED BY <2>3, <3>1, <3>2, <3>3 DEF Shape
    <2> QED BY <1>1, <2>1, <2>2, <2>3 DEF UpsertCustomRule, DeleteCustomRule
  <1>3. UNCHANGED <<retired, cfg, custom, storedCfg, raced, unsaved>>
      BY DEF UpsertCustomRule, DeleteCustomRule, engineVars
  <1>4. /\ EditsTyped' /\ OneWriter' /\ edit'[e] = q /\ \A d \in Editors : d # e => edit'[d] = edit[d]
        /\ Snapshot'
        /\ \A d \in Editors : d # e /\ edit[d].key = k => k \in raced'
    <2>1. q = NoEdit \/ (q.key = edit[e].key /\ q.value = edit[e].value /\ q.pc # "persist")
        BY <1>1, <1>2
    <2>2. edit[e].key # Unset
        BY <1>1, RuleConfigAssumption
    <2> QED BY <1>1, <1>2, <1>3, <2>1, <2>2, RequestMovesOn
  <1>5. RulesTyped'
    <2>1. rows \in [Custom -> CustomRows \cup {Unset}]
        BY DEF RuleInv, RulesTyped
    <2>2. edit[e].pc = "upsert" => edit[e].value \in CustomRows /\ buildCustom(edit[e].value)
        BY <1>0, ShapeRead DEF Shape
    <2>3. PICK w : w = Stored(edit[e].value)
        OBVIOUS
    <2>4. edit[e].pc = "upsert" =>
              w \in CustomRows /\ w.kind = edit[e].value.kind /\ w.base = edit[e].value.base /\ Stored(w) = w
        BY <2>2, <2>3, StoredRow
    <2>5. rows' \in [Custom -> CustomRows \cup {Unset}]
        BY <1>2, <2>1, <2>3, <2>4
    <2>6. \A n \in Custom : rows'[n] = rows[n] \/ rows'[n] = Unset \/ (rows'[n] = w /\ edit[e].pc = "upsert")
        BY <1>2, <2>1, <2>3
    <2>7. \A n \in Custom : rows'[n] # Unset /\ rows'[n].kind = "builtin" => rows'[n].base \in Builtin
        BY <2>2, <2>4, <2>6 DEF RuleInv, RulesTyped, buildCustom, Present
    <2>8. \A n \in Custom : rows'[n] # Unset => Stored(rows'[n]) = rows'[n]
        BY <2>4, <2>6 DEF RuleInv, RulesTyped
    <2>9. \A n \in Custom : rows'[n] # Unset => Stored(rows[n])' = rows'[n]
        BY <2>8 DEF Stored
    <2> QED BY <1>3, <2>5, <2>7, <2>9 DEF RuleInv, RulesTyped, buildCustom, Present
  <1>6. \A n \in Custom : n # k => rows'[n] = rows[n]
      BY <1>2 DEF RuleInv, RulesTyped
  <1>7. RowsFirst'
    <2> SUFFICES ASSUME NEW d \in Editors, edit'[d].key \notin raced'
                 PROVE  /\ edit'[d].pc = "install" => rows'[edit'[d].key] = Stored(edit'[d].value)
                        /\ edit'[d].pc = "uninstall" => rows'[edit'[d].key] = Unset
        BY DEF RowsFirst, Stored
    <2>1. CASE d = e
      <3>1. edit'[d] = q /\ (q = NoEdit => q.pc = "none")
          BY <1>4, <2>1, ShapeRead
      <3>2. q.pc = "install" => q.key = k /\ q.value = edit[e].value /\ rows' = [rows EXCEPT ![k] = Stored(edit[e].value)]
          BY <1>2, <3>1
      <3>3. q.pc = "uninstall" => q.key = k /\ rows' = [rows EXCEPT ![k] = Unset]
          BY <1>2, <3>1
      <3>4. PICK w : w = Stored(edit[e].value)
          OBVIOUS
      <3>5. q.pc = "install" => rows'[k] = w /\ Stored(q.value) = w
          BY <3>2, <3>4 DEF RuleInv, RulesTyped
      <3>6. q.pc = "uninstall" => rows'[k] = Unset
          BY <3>3 DEF RuleInv, RulesTyped
      <3>7. q.pc = "install" => rows'[q.key] = Stored(q.value)
          BY <3>2, <3>5
      <3> QED BY <3>1, <3>3, <3>6, <3>7
    <2>2. CASE d # e
      <3>1. edit'[d] = edit[d] /\ edit[d].key # k /\ Shape(edit[d])
          BY <1>4, <2>2 DEF RuleInv, EditsTyped
      <3>2. edit[d].pc \in {"install", "uninstall"} => rows'[edit[d].key] = rows[edit[d].key]
          BY <1>6, <3>1, ShapeRead
      <3> QED BY <1>3, <3>1, <3>2 DEF RuleInv, RowsFirst
    <2> QED BY <2>1, <2>2
  <1>8. OverridesAgree'
    <2>1. ~Writing("overrides")' => ~Writing("overrides")
        BY <1>1, <1>4, RuleConfigAssumption DEF Writing
    <2> QED BY <1>3, <2>1 DEF RuleInv, OverridesAgree
  <1>9. ListsAgree'
    <2> SUFFICES ASSUME NEW n \in Custom, ~Installing(n)', n \notin raced' PROVE StoredForm(custom'[n]) = Loaded(n)'
        BY DEF ListsAgree
    <2>1. ASSUME q.pc \in {"install", "uninstall"}, n = k PROVE FALSE
      <3>1. edit'[e].key = n /\ edit'[e].pc \in {"install", "uninstall"}
          BY <1>2, <1>4, <2>1, ShapeRead, RuleConfigAssumption
      <3> QED BY <3>1 DEF Installing
    <2>2. rows'[n] = rows[n]
        BY <1>2, <1>6, <2>1
    <2>3. ~Installing(n)
        BY <1>4, <1>2 DEF Installing, UpsertCustomRule, DeleteCustomRule, AtEdit
    <2>4. StoredForm(custom[n]) = Loaded(n)
        BY <1>3, <2>3 DEF RuleInv, ListsAgree
    <2> QED BY <1>3, <2>2, <2>4 DEF Loaded, buildCustom, Present
  <1> QED
      BY <1>4, <1>5, <1>7, <1>8, <1>9 DEF RuleInv

(* The list in memory follows.                                             *)
LEMMA ListStep == ASSUME RuleInv, NEW e \in Editors, install(e) \/ Uninstall(e) PROVE RuleInv'
  <1>0. Shape(edit[e])
      BY DEF RuleInv, EditsTyped
  <1>1. PICK k \in Custom : k = edit[e].key
      BY <1>0, ShapeRead DEF install, Uninstall, AtEdit
  <1>2. PICK v : /\ custom' = [custom EXCEPT ![k] = v]
                 /\ \/ edit[e].pc = "install" /\ v = edit[e].value
                    \/ edit[e].pc = "uninstall" /\ v = Unset
      BY <1>1 DEF install, Uninstall, AtEdit
  <1>3. UNCHANGED <<retired, cfg, storedCfg, rows, raced, unsaved>> /\ edit' = [edit EXCEPT ![e] = NoEdit]
      BY DEF install, Uninstall, EditDone
  <1>4. /\ EditsTyped' /\ OneWriter' /\ edit'[e] = NoEdit /\ \A d \in Editors : d # e => edit'[d] = edit[d]
        /\ Snapshot'
        /\ \A d \in Editors : d # e /\ edit[d].key = k => k \in raced'
    <2>1. edit[e].key # Unset
        BY <1>1, RuleConfigAssumption
    <2> QED BY <1>1, <1>3, <2>1, NoEditShape, RequestMovesOn
  <1>5. v \in CustomRows \cup {Unset} /\ (v # Unset => buildCustom(v))
      BY <1>0, <1>2, ShapeRead DEF Shape
  <1>6. custom'[k] = v /\ \A n \in Custom : n # k => custom'[n] = custom[n]
      BY <1>2 DEF RuleInv, RulesTyped
  <1>7. RulesTyped'
    <2>1. custom' \in [Custom -> CustomRows \cup {Unset}]
        BY <1>2, <1>5 DEF RuleInv, RulesTyped
    <2>2. \A n \in Custom : custom'[n] # Unset => buildCustom(custom'[n])
        BY <1>5, <1>6 DEF RuleInv, RulesTyped
    <2> QED BY <1>3, <2>1, <2>2 DEF RuleInv, RulesTyped, buildCustom, Present
  <1>8. RowsFirst'
      BY <1>3, <1>4, ShapeRead DEF RuleInv, RowsFirst
  <1>9. OverridesAgree'
    <2>1. ~Writing("overrides")' => ~Writing("overrides")
        BY <1>1, <1>4, RuleConfigAssumption DEF Writing
    <2> QED BY <1>3, <2>1 DEF RuleInv, OverridesAgree
  <1>10. ListsAgree'
    <2> SUFFICES ASSUME NEW n \in Custom, ~Installing(n)', n \notin raced' PROVE StoredForm(custom'[n]) = Loaded(n)'
        BY DEF ListsAgree
    <2>1. CASE n = k
      <3>1. rows[k] = IF v = Unset THEN Unset ELSE Stored(v)
        <4>1. edit[e].pc = "install" => v \in CustomRows
            BY <1>0, <1>2, ShapeRead DEF Shape
        <4> QED BY <1>1, <1>2, <1>3, <2>1, <4>1, RuleConfigAssumption DEF RuleInv, RowsFirst
      <3>2. rows[k] = StoredForm(v)
          BY <3>1, Zenon DEF StoredForm
      <3>3. v # Unset => StoredForm(v) # Unset /\ buildCustom(StoredForm(v))
          BY <1>5, StoredRow DEF buildCustom
      <3>4. v = Unset => StoredForm(v) = Unset
          BY DEF StoredForm
      <3>5. Loaded(k) = StoredForm(v)
          BY <3>2, <3>3, <3>4 DEF Loaded
      <3>6. Loaded(k)' = Loaded(k)
          BY <1>3 DEF Loaded, buildCustom, Present
      <3> QED BY <1>6, <2>1, <3>5, <3>6
    <2>2. CASE n # k
      <3>1. ~Installing(n)
          BY <1>1, <1>4, <2>2 DEF Installing
      <3>2. StoredForm(custom[n]) = Loaded(n)
          BY <1>3, <3>1 DEF RuleInv, ListsAgree
      <3> QED BY <1>3, <1>6, <2>2, <3>2 DEF Loaded, buildCustom, Present
    <2> QED BY <2>1, <2>2
  <1> QED
      BY <1>4, <1>7, <1>8, <1>9, <1>10 DEF RuleInv

(* A restart reads both tables, with the rules its release still has.      *)
LEMMA RestartStep == ASSUME RuleInv, NewEngine PROVE RuleInv'
  <1>1. /\ cfg' = storedCfg /\ storedCfg' = storedCfg /\ rows' = rows /\ raced' = {}
        /\ edit' = [e \in Editors |-> NoEdit]
        /\ custom' = [n \in Custom |-> IF rows[n] # Unset /\ (rows[n].kind = "builtin" => rows[n].base \notin retired')
                                       THEN rows[n] ELSE Unset]
      BY DEF NewEngine, loadCustom
  <1>2. \A n \in Custom : rows[n] # Unset => (buildCustom(rows[n])' <=> (rows[n].kind = "builtin" => rows[n].base \notin retired'))
      BY <1>1 DEF RuleInv, RulesTyped, buildCustom, Present
  <1>3. \A n \in Custom : custom'[n] = Loaded(n)'
      BY <1>1, <1>2 DEF Loaded, buildCustom
  <1>4. \A n \in Custom : custom'[n] # Unset => buildCustom(custom[n])'
      BY <1>3 DEF Loaded
  <1>5. RulesTyped'
    <2>1. custom' \in [Custom -> CustomRows \cup {Unset}]
        BY <1>1 DEF RuleInv, RulesTyped
    <2> QED BY <1>1, <1>4, <2>1 DEF RuleInv, RulesTyped, buildCustom, Present
  <1>6. EditsTyped' /\ \A e \in Editors : edit'[e].pc = "none" /\ edit'[e].key = Unset
      BY <1>1 DEF EditsTyped, Shape, NoEdit
  <1>7. OneWriter' /\ Snapshot' /\ RowsFirst'
      BY <1>6 DEF OneWriter, Snapshot, RowsFirst
  <1>8. OverridesAgree'
      BY <1>1 DEF OverridesAgree
  <1>9. ListsAgree'
    <2> SUFFICES ASSUME NEW n \in Custom PROVE StoredForm(custom'[n]) = Loaded(n)'
        BY DEF ListsAgree, StoredForm, Stored
    <2>1. custom'[n] = Unset \/ (custom'[n] = rows[n] /\ rows[n] # Unset)
        BY <1>1
    <2>2. rows[n] # Unset => Stored(rows[n]) = rows[n]
        BY DEF RuleInv, RulesTyped
    <2>3. StoredForm(custom'[n]) = custom'[n]
        BY <2>1, <2>2, Zenon DEF StoredForm
    <2> QED BY <1>3, <2>3
  <1> QED
      BY <1>5, <1>6, <1>7, <1>8, <1>9 DEF RuleInv

(* Merging an override into a row leaves a row of the same kind.           *)
LEMMA MergedRow ==
    ASSUME NEW row \in CustomRows, NEW rc \in RuleConfigs
    PROVE  Merged(row, rc) \in CustomRows /\ Merged(row, rc).kind = row.kind /\ Merged(row, rc).base = row.base
  <1>1. DOMAIN row = {"kind", "base", "rest", "enabled", "interval"} /\ DOMAIN rc = {"enabled", "interval", "rest"}
      BY DEF CustomRows, RuleConfigs
  <1>2. PICK m : m = Merged(row, rc)
      OBVIOUS
  <1>3. m = [kind |-> row.kind, base |-> row.base, rest |-> m.rest, enabled |-> m.enabled, interval |-> m.interval]
      BY <1>1, <1>2 DEF Merged
  <1>4. m.rest \in Details /\ m.enabled \in Switches /\ m.interval \in Int
      BY <1>1, <1>2 DEF Merged, CustomRows, RuleConfigs, Intervals
  <1>5. row.kind \in {"sql", "builtin"} /\ row.base \in Bases
      BY DEF CustomRows
  <1> QED
      BY <1>2, <1>3, <1>4, <1>5 DEF CustomRows

(* A definition that was let through makes a row of a rule that can run.   *)
LEMMA RowOfSpec ==
    ASSUME NEW spec \in CustomSpecs, ValidSpec(spec) PROVE toRow(spec) \in CustomRows /\ buildCustom(toRow(spec))
  <1> DEFINE on == IF spec.enabled = Unset THEN TRUE ELSE spec.enabled
             every == IF spec.interval = Unset THEN DefaultInterval ELSE spec.interval
  <1>1. spec.enabled \in Switches /\ spec.interval \in Intervals /\ spec.rest \in Details /\ spec.base \in Bases
      BY DEF CustomSpecs
  <1>2. on \in Switches
    <2>1. CASE spec.enabled = Unset
        BY <2>1, Zenon DEF Switches
    <2>2. CASE spec.enabled # Unset
        BY <1>1, <2>2, Zenon
    <2> QED BY <2>1, <2>2
  <1>3. every \in Int
      BY <1>1, RuleConfigAssumption DEF Intervals
  <1>4. toRow(spec) = [kind |-> spec.kind, base |-> spec.base, rest |-> spec.rest, enabled |-> on, interval |-> every]
      BY Zenon DEF toRow
  <1> HIDE DEF on, every
  <1>5. spec.kind = "sql" \/ (spec.kind = "builtin" /\ spec.base \in Present)
      BY DEF ValidSpec
  <1> QED
      BY <1>1, <1>2, <1>3, <1>4, <1>5 DEF CustomRows, buildCustom, Present

(* A request that the engine accepts begins.                               *)
LEMMA AcceptedBegins ==
    ASSUME RuleInv, NEW e \in Editors,
           \/ \E n \in Names, rc \in Edits : UpdateConfig(e, n, rc) \/ updateCustomConfig(e, n, rc)
           \/ \E n \in Custom, spec \in Specs, create \in BOOLEAN : SaveCustom(e, n, spec, create)
           \/ \E n \in Custom : DeleteCustom(e, n)
    PROVE  RuleInv'
  <1>1. ASSUME NEW n \in Names, NEW rc \in Edits, UpdateConfig(e, n, rc) PROVE RuleInv'
    <2>1. BeginEdit(e, "persist", "overrides", cfg') /\ UNCHANGED <<retired, custom, rows, storedCfg, unsaved>>
        BY <1>1 DEF UpdateConfig
    <2>2. PICK v : v = cfg'
        OBVIOUS
    <2>3. BeginEdit(e, "persist", "overrides", v)
        BY <2>1, <2>2
    <2> QED BY <2>1, <2>2, <2>3, RequestBegins
  <1>2. ASSUME NEW n \in Custom, NEW rc \in Edits, updateCustomConfig(e, n, rc) PROVE RuleInv'
    <2>1. PICK v : v = Merged(custom[n], rc)
        OBVIOUS
    <2>2. BeginEdit(e, "upsert", n, v) /\ UNCHANGED <<retired, cfg, custom, rows, storedCfg, unsaved>> /\ custom[n] # Unset
        BY <1>2, <2>1 DEF updateCustomConfig, engineVars
    <2>3. custom[n] \in CustomRows /\ buildCustom(custom[n]) /\ rc \in RuleConfigs
        BY <2>2, RuleConfigAssumption DEF RuleInv, RulesTyped
    <2>4. v \in CustomRows /\ v.kind = custom[n].kind /\ v.base = custom[n].base
        BY <2>1, <2>3, MergedRow
    <2>5. buildCustom(v)
        BY <2>3, <2>4 DEF buildCustom
    <2> QED BY <2>2, <2>4, <2>5, RequestBegins
  <1>3. ASSUME NEW n \in Custom, NEW spec \in Specs, NEW create \in BOOLEAN, SaveCustom(e, n, spec, create) PROVE RuleInv'
    <2>1. PICK v : v = toRow(spec)
        OBVIOUS
    <2>2. /\ BeginEdit(e, "upsert", n, v) /\ UNCHANGED <<retired, cfg, custom, rows, storedCfg, unsaved>>
          /\ ValidSpec(spec) /\ spec \in CustomSpecs
        BY <1>3, <2>1, RuleConfigAssumption DEF SaveCustom, engineVars
    <2>3. v \in CustomRows /\ buildCustom(v)
        BY <2>1, <2>2, RowOfSpec
    <2> QED BY <2>2, <2>3, RequestBegins
  <1>4. ASSUME NEW n \in Custom, DeleteCustom(e, n) PROVE RuleInv'
    <2>1. BeginEdit(e, "delete", n, Unset) /\ UNCHANGED <<retired, cfg, custom, rows, storedCfg, unsaved>>
        BY <1>4 DEF DeleteCustom, engineVars
    <2> QED BY <2>1, RequestBegins
  <1> QED
      BY <1>1, <1>2, <1>3, <1>4 DEF updateCustomConfig

(* Every step keeps the agreement.                                         *)
LEMMA RuleStep == RuleInv /\ [RuleConfigNext]_ruleVars => RuleInv'
  <1> SUFFICES ASSUME RuleInv, [RuleConfigNext]_ruleVars PROVE RuleInv'
      OBVIOUS
  <1>1. CASE UNCHANGED <<retired, cfg, custom, storedCfg, rows, edit, raced, unsaved>>
      BY <1>1, RulesIdle
  <1>2. CASE EngineStep \/ (\E n \in Names : runRule(n)) \/ UNCHANGED ruleVars
      BY <1>1, <1>2 DEF EngineStep, BeginTick, TickRule, runRule, ruleVars, engineVars
  <1>3. ASSUME NEW e \in Editors, EditStep(e) PROVE RuleInv'
      BY <1>3, PersistStep, RowStep, ListStep DEF EditStep
  <1> QED
      BY <1>2, <1>3, AcceptedBegins, RestartStep DEF RuleConfigNext

(* What the engine works with is what a restart would load, for every      *)
(* order of requests, failures and restarts (UpdateConfig, SaveCustom,     *)
(* DeleteCustom, New of rules/rules.go and rules/custom.go).               *)
THEOREM MemoryIsDatabase == RuleConfigSpec => []LiveIsStored
  <1>1. RuleInv => LiveIsStored
      BY DEF RuleInv, OverridesAgree, ListsAgree, Installing, Writing, Loaded, LiveIsStored
  <1> QED
      BY <1>1, RuleStart, RuleStep, PTL DEF RuleConfigSpec
=============================================================================
