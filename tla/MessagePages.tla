---------------------------- MODULE MessagePages ----------------------------
(***************************************************************************)
(* The programs of a page that read and send messages or decide on them:   *)
(* notifications, support, contact requests, and the staff console.        *)
(***************************************************************************)
EXTENDS Slots

CONSTANTS  \* the constants of each program: a record of them
    Inbox, Desk, Contact, StaffSends, Console

-----------------------------------------------------------------------------
\* The notification sheet.
N == INSTANCE Notifications WITH
    Stamps <- Inbox.Stamps, Page <- Inbox.Page, MaxLoads <- Inbox.MaxLoads,
    MaxFailures <- Inbox.MaxFailures, begun <- v1, sent <- v2, sheet <- v3, items <- v4,
    more <- v5, loads <- v6, appending <- v7, state <- v8, base <- v9, failures <- v10

\* Support conversations.
S == INSTANCE SupportDesk WITH
    Tickets <- Desk.Tickets, Texts <- Desk.Texts, MaxSends <- Desk.MaxSends,
    MaxLoads <- Desk.MaxLoads, MaxUpsets <- Desk.MaxUpsets, tickets <- v1,
    receipts <- v2, ticket <- v3, thread <- v4, draft <- v5, key <- v6, busy <- v7,
    first <- v8, loads <- v9, sends <- v10, clicks <- v11, reads <- v12, upsets <- v13,
    away <- v14

\* The contact page.
M == INSTANCE ContactForm WITH
    People <- Contact.People, HourlyLimit <- Contact.HourlyLimit,
    MaxTexts <- Contact.MaxTexts, MaxSubmits <- Contact.MaxSubmits,
    MaxLoads <- Contact.MaxLoads, MaxChanges <- Contact.MaxChanges,
    MaxFaults <- Contact.MaxFaults, tickets <- v1, login <- v2, user <- v3,
    authVersion <- v4, text <- v5, texts <- v6, requestId <- v7, ids <- v8,
    sending <- v9, loads <- v10, history <- v11, submits <- v12, changes <- v13,
    faults <- v14

\* The console's forms that send something once.
E == INSTANCE StaffForms WITH
    Targets <- StaffSends.Targets, MaxEdits <- StaffSends.MaxEdits,
    MaxOpens <- StaffSends.MaxOpens, MaxSubmits <- StaffSends.MaxSubmits,
    MaxFaults <- StaffSends.MaxFaults, kind <- v1, done <- v2, version <- v3, recent <- v4,
    target <- v5, expected <- v6, draft <- v7, drafts <- v8, requestId <- v9,
    ids <- v10, purpose <- v11, codeAsked <- v12, counting <- v13, confirm <- v14,
    calls <- v15, opens <- v16, submits <- v17, faults <- v18

\* The staff console.
C == INSTANCE StaffConsole WITH
    Staff <- Console.Staff, Items <- Console.Items,
    Capabilities <- Console.Capabilities, Budgets <- Console.Budgets, login <- v1,
    verified <- v2, recent <- v3, session <- v4, context <- v5, phase <- v6,
    calls <- v7, screen <- v8, selected <- v9, form <- v10, codeAsked <- v11,
    decisions <- v12, acted <- v13, events <- v14, reads <- v15, submits <- v16,
    failures <- v17

-----------------------------------------------------------------------------
(* What the constants of the modules have to be *)

ASSUME MessageAssumptions ==
    /\ N!InboxBounds
    /\ S!DeskBounds
    /\ M!ContactBounds
    /\ E!StaffFormsBounds
    /\ C!ConsoleBounds /\ C!ConsoleCapabilities
=============================================================================
