---------------------------- MODULE VendorProfile ----------------------------
(***************************************************************************)
(* The profile of one vendor, their notification preferences and their     *)
(* account details (VendorProfileService, VendorAccountDetailsService and  *)
(* their repositories), under concurrent requests.  A request writes its   *)
(* own name into every field it sets; no body looks like the placeholder.  *)
(***************************************************************************)
EXTENDS Naturals, FiniteSets

CONSTANTS
    Calls,      \* requests of the vendor, one operation each
    Absent      \* no such row, no such value

VARIABLES
    profile,    \* the VendorProfile row
    settings,   \* the VendorTrackingSettings row
    account,    \* the VendorAccountDetails row
    call        \* the requests

profileVars == <<profile, settings, account>>

ProfileFields  == {"businessName", "description"}
SettingsFields == {"notifyOnDelay", "notificationChannels"}
AccountFields  == {"taxId", "preferredCurrency"}

\* The row ensureVendorProfile inserts before the vendor has registered.
Placeholder == [businessName |-> "address", description |-> "[placeholder]"]

\* An older placeholder has no description and the address as its name.
IsPlaceholder(row) ==
    \/ row.description = "[placeholder]"
    \/ row.businessName = "address" /\ row.description = "null"

Answer(c, a) == call' = [call EXCEPT ![c].pc = "done", ![c].answer = a]

(* buildErrorResponse: an HttpException keeps its status, an error of      *)
(* Prisma (a code that starts with P) gets the one of its code, an error   *)
(* of validation 400, anything else 500.                                   *)
HandlePrismaError(code) ==
    CASE code = "P2002" -> "409"
      [] code = "P2025" -> "404"
      [] OTHER -> "500"

BuildErrorResponse(exception) ==
    CASE exception \in {"400", "404", "409", "422"} -> exception
      [] exception \in {"P1001", "P2002", "P2003", "P2025"} -> HandlePrismaError(exception)
      [] exception = "ValidationError" -> "400"
      [] OTHER -> "500"

Throw(c, exception) == Answer(c, BuildErrorResponse(exception))

Goto(c, pc) == call' = [call EXCEPT ![c].pc = pc]

At(c, pc) == call[c].pc = pc

\* The body of a create or a replace: description ?? null.
Row(c) ==
    [businessName |-> c,
     description  |-> IF "description" \in call[c].dto THEN c ELSE "null"]

\* Only the fields of the body are changed; a new row has defaults elsewhere.
Patched(row, fields, c) ==
    [f \in fields |-> CASE f \in call[c].dto -> c
                        [] f \notin call[c].dto /\ row = Absent -> "default"
                        [] OTHER -> row[f]]

(***************************************************************************)
(* createProfile: the row decides between an insert, the replacement of a  *)
(* placeholder and a conflict; the write is a second statement.            *)
(***************************************************************************)
CreateProfile(c) ==
    /\ At(c, "createProfile")
    /\ CASE profile = Absent -> Goto(c, "create")
         [] profile # Absent /\ IsPlaceholder(profile) ->
              Goto(c, "upsert")
         [] OTHER -> Throw(c, "409")
    /\ UNCHANGED profileVars

Replace(c) ==
    /\ profile' = Row(c)
    /\ Answer(c, "ok")
    /\ UNCHANGED <<settings, account>>

\* Mutant: the insert replaces a row that is there.
CreateOrReplace(c) == At(c, "create") /\ Replace(c)

\* The primary key refuses a second row.
RepositoryCreate(c) ==
    /\ At(c, "create")
    /\ \/ profile = Absent /\ Replace(c)
       \/ profile # Absent /\ Throw(c, "P2002") /\ UNCHANGED profileVars

RepositoryUpsert(c) == At(c, "upsert") /\ Replace(c)

UpdateProfile(c) ==
    /\ At(c, "updateProfile")
    /\ CASE call[c].dto = {} -> Throw(c, "400")
         [] call[c].dto # {} /\ profile = Absent -> Throw(c, "404")
         [] OTHER -> Goto(c, "update")
    /\ UNCHANGED profileVars

RepositoryUpdate(c) ==
    /\ At(c, "update")
    /\ profile' = Patched(profile, ProfileFields, c)
    /\ Answer(c, "ok")
    /\ UNCHANGED <<settings, account>>

UpdateNotificationPreferences(c) ==
    /\ At(c, "updatePreferences")
    /\ CASE call[c].dto = {} -> Throw(c, "400")
         [] call[c].dto # {} /\ profile = Absent -> Throw(c, "404")
         [] OTHER -> Goto(c, "upsertSettings")
    /\ UNCHANGED profileVars

UpsertSettings(c) ==
    /\ At(c, "upsertSettings")
    /\ settings' = Patched(settings, SettingsFields, c)
    /\ Answer(c, "ok")
    /\ UNCHANGED <<profile, account>>

\* upsertDetails does not look for a profile: the foreign key does.
UpsertDetails(c) ==
    /\ At(c, "upsertDetails")
    /\ \/ /\ profile = Absent
          /\ Throw(c, "P2003")
          /\ UNCHANGED profileVars
       \/ /\ profile # Absent
          /\ account' = Patched(account, AccountFields, c)
          /\ Answer(c, "ok")
          /\ UNCHANGED <<profile, settings>>

\* The first step of each operation, and the bodies it is tried with.
Bodies(first) ==
    CASE first \in {"createProfile", "upsert"} -> {{"businessName"}, ProfileFields}
      [] first = "updateProfile" -> {{}, {"businessName"}, {"description"}}
      [] first = "updatePreferences" -> {{}} \cup {{f} : f \in SettingsFields}
      [] first = "upsertDetails" -> {{f} : f \in AccountFields}

ProfileOperations ==
    {"createProfile", "upsert", "updateProfile", "updatePreferences", "upsertDetails"}

StartProfileCall(c) ==
    /\ At(c, "idle")
    /\ \E first \in ProfileOperations : \E dto \in Bodies(first) :
         call' = [call EXCEPT ![c].op = first, ![c].pc = first, ![c].dto = dto]
    /\ UNCHANGED profileVars

ProfileStep(c) ==
    \/ CreateProfile(c) \/ RepositoryCreate(c) \/ RepositoryUpsert(c)
    \/ UpdateProfile(c) \/ RepositoryUpdate(c)
    \/ UpdateNotificationPreferences(c) \/ UpsertSettings(c)
    \/ UpsertDetails(c)

ProfileInit ==
    /\ profile = Absent /\ settings = Absent /\ account = Absent

-----------------------------------------------------------------------------
Registered(c) == call[c].op = "createProfile" /\ call[c].answer = "ok"

(* createProfile is the strict "first registration" path: of several that  *)
(* run at once one succeeds.  The exception is a profile that an escrow    *)
(* creation made up before: two registrations that both read the           *)
(* placeholder both replace it.                                            *)
RegisteredOnce ==
    \A c, d \in Calls :
      (c # d /\ Registered(c) /\ Registered(d)) => \E e \in Calls : call[e].op = "createEscrow"

(* A registration that was answered stands, so that "the retry 409s":      *)
(* neither an escrow creation under way, with its upsert of a placeholder, *)
(* nor a partial update that read the row earlier brings the placeholder   *)
(* back.                                                                   *)
RegistrationStands ==
    \A c \in Calls : Registered(c) => profile # Absent /\ ~IsPlaceholder(profile)
=============================================================================
