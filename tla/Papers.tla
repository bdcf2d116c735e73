------------------------------- MODULE Papers -------------------------------
(***************************************************************************)
(* The papers of a company read into Odoo (ai_enterprise_copilot): the     *)
(* residence permits, passports and staff rosters of the setup journey     *)
(* become employees; licences and certificates become the company's data,  *)
(* by the journey's scanner or the document hunter wizard.                 *)
(*                                                                         *)
(* Each button is a transaction that writes the journey, so two of them    *)
(* never overlap; a paper of a batch is an action of its own.              *)
(***************************************************************************)
EXTENDS Naturals, FiniteSets

CONSTANTS
    Iqamas, Passports, Names,   \* what is read on the papers of the staff
    Numbers,                    \* tax numbers read on those of the company
    MaxEmployees,               \* bound: employees
    Unread                      \* nothing was found

ASSUME PapersAssumption ==
    /\ MaxEmployees \in Nat
    /\ Unread \notin Iqamas \union Passports \union Names \union Numbers

VARIABLES
    staff,      \* the employees of the company
    company,    \* the company and the data of the journey
    hunter      \* the document hunter wizard

papersVars == <<staff, company, hunter>>

Employee == [name : Names, iqama : Iqamas \union {Unread},
             passport : Passports \union {Unread}, active : BOOLEAN]

(* vat: the company's number, which the journey shows.  param:              *)
(* nexus.vat_number of the system, which the wizard sets.                   *)
Company == [vat : Numbers \union {Unread}, param : Numbers \union {Unread},
            uploaded : BOOLEAN]

Hunter == [state : {"upload", "extracted", "completed"},
           uploaded : BOOLEAN, vat : Numbers \union {Unread}]

Active == {e \in DOMAIN staff : staff[e].active}

Or(read, old) == IF read = Unread THEN old ELSE read

-----------------------------------------------------------------------------
PapersInit ==
    /\ staff = <<>>
    /\ company = [vat |-> Unread, param |-> Unread, uploaded |-> FALSE]
    /\ hunter = [state |-> "upload", uploaded |-> FALSE, vat |-> Unread]

-----------------------------------------------------------------------------
(* Papers of the staff *)

WithIqama(iqama) == {e \in Active : iqama # Unread /\ staff[e].iqama = iqama}
WithPassport(pass) ==
    {e \in Active : pass # Unread /\ staff[e].passport = pass}
WithName(name) == {e \in Active : staff[e].name = name}

(* One of those found is written, or an employee is created; what was not   *)
(* read is left as it is.                                                   *)
Upsert(found, name, iqama, pass) ==
    /\ IF found # {}
         THEN \E e \in found : staff' = [staff EXCEPT
                 ![e].name = name, ![e].iqama = Or(iqama, @),
                 ![e].passport = Or(pass, @)]
         ELSE /\ Cardinality(DOMAIN staff) < MaxEmployees
              /\ staff' = [e \in 1..Cardinality(DOMAIN staff) + 1 |->
                    IF e \in DOMAIN staff THEN staff[e]
                    ELSE [name |-> name, iqama |-> iqama, passport |-> pass,
                          active |-> TRUE]]
    /\ UNCHANGED <<company, hunter>>

(* Mutant: by the passport, if there is one, then by the permit. *)
ScanByPassport(name, iqama, pass) ==
    Upsert(IF WithPassport(pass) # {} THEN WithPassport(pass)
           ELSE WithIqama(iqama), name, iqama, pass)

(* action_scan_employee_documents: a name is always found, if only that of  *)
(* the file.                                                                *)
ScanDocument(name, iqama, pass) ==
    Upsert(IF WithIqama(iqama) # {} THEN WithIqama(iqama)
           ELSE WithPassport(pass), name, iqama, pass)

(* action_import_employee_roster: a row without a name is skipped.  The     *)
(* contracts it means to write are never written: it tests for their model  *)
(* with an empty recordset.                                                 *)
ImportRow(name, iqama) ==
    Upsert(IF WithIqama(iqama) # {} THEN WithIqama(iqama)
           ELSE WithName(name), name, iqama, Unread)

(* The staff office files an employee away, or takes one back. *)
ArchiveEmployee(e) ==
    /\ e \in DOMAIN staff
    /\ staff' = [staff EXCEPT ![e].active = ~@]
    /\ UNCHANGED <<company, hunter>>

-----------------------------------------------------------------------------
(* Papers of the company *)

UploadPaper ==
    /\ company' = [company EXCEPT !.uploaded = TRUE]
    /\ UNCHANGED <<staff, hunter>>

(* Clearing takes the uploads, not what was read off them. *)
ClearDocumentInputs ==
    /\ company' = [company EXCEPT !.uploaded = FALSE]
    /\ UNCHANGED <<staff, hunter>>

Extract(vat) == [company EXCEPT !.vat = Or(vat, @)]

(* action_trigger_document_hunter: every upload anew, those of earlier      *)
(* scans too; only the single file is taken off.                            *)
TriggerDocumentHunter(vat) ==
    /\ company.uploaded
    /\ \E left \in BOOLEAN :
          company' = [Extract(vat) EXCEPT !.uploaded = left]
    /\ UNCHANGED <<staff, hunter>>

(* The wizard.  Its buttons act on what the form holds; a licence number or *)
(* an address on the papers makes extraction fail (an undefined name).      *)
OpenHunter ==
    /\ hunter' = [state |-> "upload", uploaded |-> FALSE, vat |-> Unread]
    /\ UNCHANGED <<staff, company>>

UploadToHunter ==
    /\ hunter.state = "upload"
    /\ hunter' = [hunter EXCEPT !.uploaded = TRUE]
    /\ UNCHANGED <<staff, company>>

HuntAndExtract(vat) ==
    /\ hunter.state = "upload" /\ hunter.uploaded
    /\ hunter' = [hunter EXCEPT !.state = "extracted", !.vat = Or(vat, @)]
    /\ UNCHANGED <<staff, company>>

BackToUpload ==
    /\ hunter.state = "extracted"
    /\ hunter' = [hunter EXCEPT !.state = "upload"]
    /\ UNCHANGED <<staff, company>>

(* Clearing keeps what was extracted: the next papers are read over it. *)
ClearInputs ==
    /\ hunter.state = "upload"
    /\ hunter' = [hunter EXCEPT !.uploaded = FALSE]
    /\ UNCHANGED <<staff, company>>

ApplyAndProvision ==
    /\ hunter.state = "extracted"
    /\ company' = [company EXCEPT !.vat = Or(hunter.vat, @),
                                  !.param = Or(hunter.vat, @)]
    /\ hunter' = [hunter EXCEPT !.state = "completed"]
    /\ UNCHANGED staff

-----------------------------------------------------------------------------
ImportStaff ==
    \E name \in Names, iqama \in Iqamas \union {Unread} :
       \/ ImportRow(name, iqama)
       \/ \E pass \in Passports \union {Unread} :
             ScanDocument(name, iqama, pass)

PapersNext ==
    \/ ImportStaff
    \/ \E e \in DOMAIN staff : ArchiveEmployee(e)
    \/ UploadPaper \/ ClearDocumentInputs
    \/ \E vat \in Numbers \union {Unread} :
          TriggerDocumentHunter(vat) \/ HuntAndExtract(vat)
    \/ OpenHunter \/ UploadToHunter \/ BackToUpload \/ ClearInputs
    \/ ApplyAndProvision

PapersSpec == PapersInit /\ [][PapersNext]_papersVars

-----------------------------------------------------------------------------
(* Properties *)

(* Every variable has its type. *)
PapersTypeOK ==
    /\ DOMAIN staff \subseteq 1..MaxEmployees
    /\ \A e \in DOMAIN staff : staff[e] \in Employee
    /\ company \in Company
    /\ hunter \in Hunter

Twins(s) ==
    {pair \in SUBSET DOMAIN s :
        /\ Cardinality(pair) = 2
        /\ \A d, e \in pair : s[d].active /\ s[d].iqama = s[e].iqama
                              /\ s[d].iqama # Unread}

(* Importing and scanning, in whatever order and with namesakes about,      *)
(* never give two employees of the list the same residence permit.          *)
NoNewTwins ==
    [][staff' # staff /\ ImportStaff => Twins(staff') \subseteq Twins(staff)]_papersVars

=============================================================================
