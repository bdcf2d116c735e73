------------------------------ MODULE Migrator ------------------------------
(***************************************************************************)
(* The migrator of ai_enterprise_copilot: files of another system become   *)
(* products, partners and accounts.  A row of a file is looked for by one  *)
(* key after the other; what it is found as is overwritten.  An import is  *)
(* one transaction: a row that Odoo refuses undoes it all.                 *)
(***************************************************************************)
EXTENDS Naturals, Sequences

CONSTANTS
    ItemCodes, BarCodes, ItemNames,  \* what files say of products and others
    Blank,                           \* a column that is not there or empty
    MaxItems,                        \* bound: products, partners and accounts
    MaxRows                          \* bound: rows of a file

ASSUME MigratorAssumption ==
    /\ MaxItems \in Nat /\ MaxRows \in Nat
    /\ Blank \notin ItemCodes \union BarCodes \union ItemNames

VARIABLES
    items,      \* products, partners and accounts of the company, by age
    migrator    \* the wizard

migratorVars == <<items, migrator>>

Imported == {"products", "partners", "accounts"}
Targets == Imported \union {"employees"}

(* A partner's code is its tax number; it has no barcode. *)
Columns == [code : ItemCodes \union {Blank}, barcode : BarCodes \union {Blank},
            name : ItemNames \union {Blank}]

Item == [kind : Imported, code : ItemCodes \union {Blank},
         barcode : BarCodes \union {Blank}, name : ItemNames \union ItemCodes]

Files == UNION {[1..n -> Columns] : n \in 1..MaxRows}

-----------------------------------------------------------------------------
MigratorInit ==
    /\ items = <<>>
    /\ migrator = [state |-> "upload", target |-> "products"]

(* action_analyze_and_preview: the target is guessed from the names of the  *)
(* columns, whatever was chosen in the wizard. *)
AnalyzeAndPreview ==
    /\ migrator.state = "upload"
    /\ \E target \in Targets :
          migrator' = [state |-> "preview", target |-> target]
    /\ UNCHANGED items

UploadAgain ==
    /\ migrator.state \in {"preview", "imported"}
    /\ migrator' = [migrator EXCEPT !.state = "upload"]
    /\ UNCHANGED items

-----------------------------------------------------------------------------
(* action_execute_import *)

With(list, kind, key, value) ==
    {i \in DOMAIN list : value # Blank /\ list[i].kind = kind /\ list[i][key] = value}

(* The keys of a kind that find anything, the first of them. *)
FirstFound(list, row, keys) ==
    LET finds(key) == With(list, row.kind, key, row[key]) # {}
        key == CHOOSE n \in DOMAIN keys :
                  finds(keys[n]) /\ \A m \in 1..n - 1 : ~finds(keys[m])
    IN  IF \E n \in DOMAIN keys : finds(keys[n])
          THEN With(list, row.kind, keys[key], row[keys[key]]) ELSE {}

(* Mutant: products by their names before all else. *)
KeysNameFirst(kind) ==
    CASE kind = "products" -> <<"name", "code", "barcode">>
      [] kind = "partners" -> <<"code", "name">>
      [] kind = "accounts" -> <<"code">>

Keys(kind) ==
    CASE kind = "products" -> <<"code", "barcode", "name">>
      [] kind = "partners" -> <<"code", "name">>
      [] kind = "accounts" -> <<"code">>

(* What the columns are taken to say: a product without a name is named     *)
(* after its code.  A row that says too little is skipped.                  *)
ProductRow(r) == [kind |-> "products", code |-> r.code, barcode |-> r.barcode,
                  name |-> IF r.name = Blank THEN r.code ELSE r.name]
PartnerRow(r) == [kind |-> "partners", code |-> r.code, barcode |-> Blank,
                  name |-> r.name]
AccountRow(r) == [kind |-> "accounts", code |-> r.code, barcode |-> Blank,
                  name |-> r.name]

RowOf(kind, r) ==
    CASE kind = "products" -> ProductRow(r)
      [] kind = "partners" -> PartnerRow(r)
      [] kind = "accounts" -> AccountRow(r)

Skipped(row) ==
    \/ row.name = Blank
    \/ row.kind = "accounts" /\ row.code = Blank

(* Odoo refuses a second product with a barcode. *)
Refused(list) ==
    \E i, j \in DOMAIN list :
        i # j /\ list[i].barcode = list[j].barcode /\ list[i].barcode # Blank

(* Writing leaves what the row does not say as it is. *)
Overwrite(item, row) ==
    [item EXCEPT !.name = row.name,
                 !.code = IF row.code = Blank THEN @ ELSE row.code,
                 !.barcode = IF row.barcode = Blank THEN @ ELSE row.barcode]

(* The lists a row may make of a list: search takes any that is found. *)
TakeRow(list, row) ==
    LET found == FirstFound(list, row, Keys(row.kind)) IN
    IF Skipped(row) THEN {list}
    ELSE IF found = {} THEN {Append(list, row)}
    ELSE {[list EXCEPT ![i] = Overwrite(@, row)] : i \in found}

(* The lists a file may make of a list, row by row. *)
TakeFile(list, kind, file) ==
    LET after[n \in 0..Len(file)] ==
          IF n = 0 THEN {list}
          ELSE UNION {{l \in TakeRow(before, RowOf(kind, file[n])) : ~Refused(l)} :
                         before \in after[n - 1]}
    IN  after[Len(file)]

ExecuteImport ==
    /\ migrator.state = "preview" /\ migrator.target \in Imported
    /\ \E file \in Files :
          /\ migrator.target = "accounts" =>
                \E n \in DOMAIN file : ~Skipped(AccountRow(file[n]))
          /\ items' \in {l \in TakeFile(items, migrator.target, file) :
                            Len(l) <= MaxItems}
    /\ migrator' = [migrator EXCEPT !.state = "imported"]

-----------------------------------------------------------------------------
MigratorNext == AnalyzeAndPreview \/ UploadAgain \/ ExecuteImport

MigratorSpec == MigratorInit /\ [][MigratorNext]_migratorVars

-----------------------------------------------------------------------------
(* Properties *)

(* Every variable has its type. *)
MigratorTypeOK ==
    /\ items \in Seq(Item) /\ Len(items) <= MaxItems
    /\ migrator \in [state : {"upload", "preview", "imported"}, target : Targets]

(* However files overlap, name things alike and come again, no two products *)
(* have one code, no two partners one tax number, no two accounts one code. *)
NoTwinsImported ==
    \A i, j \in DOMAIN items :
        /\ i # j /\ items[i].kind = items[j].kind
        /\ items[i].code # Blank
        => items[i].code # items[j].code

=============================================================================
