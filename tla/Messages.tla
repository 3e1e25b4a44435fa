------------------------------ MODULE Messages ------------------------------
(***************************************************************************)
(* The workflows about contacts and about the meetings of the day, which   *)
(* end in a call or in an email.                                           *)
(***************************************************************************)
EXTENDS WorkflowSteps

Found == {"one", "several", "bad"}
Record == {"good", "bad"}

MessageValues ==
  [query |-> {"first", "full"},          \* looked up by first name only, or more
   matches |-> Found, info |-> Record,   \* the contacts found, and their records
   picked |-> {"one", "other"}, pickedInfo |-> Record,
   target |-> {"her", "name", "other"},  \* who is to be called
   addressee |-> {"full", "first", "other"}, recipient |-> {"first", "second"},
   source |-> Found, sourceInfo |-> Record,
   topic |-> {"open", "named", "other"}, calendar |-> Found,
   meeting |-> {"first", "second", "other"}, started |-> {"yes", "no"},
   attendee |-> Found, attendees |-> Record, content |-> {"friendly", "other"},
   fitting |-> {"yes", "no"},            \* does the request fit the meeting
   venue |-> Record, meetingWeather |-> Record]

MessageParents ==
  [info |-> {"matches"}, pickedInfo |-> {"matches", "picked"},
   sourceInfo |-> {"source"}, attendees |-> {"calendar", "meeting", "attendee"},
   venue |-> {"calendar"}, meetingWeather |-> {"venue", "calendar"}]

-----------------------------------------------------------------------------
(* Contacts.                                                               *)

\* _contact_candidates_from_evidence: the people who fit the name.
People(matches, v) == Verify(matches, v)

\* _store_displayed_contact_group: a record for each of them, with phone and email.
Records(records, v) == Verify(records, v)

\* _next_contact_lookup_workflow.  Several people with the same first name are shown,
\* and one of them has to be picked.
LookUp(v) ==
  Tools \o Given({"query"}) \o People("matches", v)
  \o IF v.query = "first" /\ v.matches = "several" THEN Reply(Shown)
     ELSE Records("info", v) \o Reply(Shown)

\* _handle_displayed_contact_selection: one of those who were shown.
PickContact(v) ==
  Require(v.matches = "several", Limit)
  \o Given({"picked"}) \o Require(v.picked = "one", Limit)
  \o Tools \o Records("pickedInfo", v) \o Reply(Shown)

\* _validated_displayed_contact_group: the records that were shown in the present state.
Group(v) == IF v.pickedInfo = "good" THEN "one"
            ELSE IF v.info = "good" /\ v.matches \in {"one", "several"} THEN v.matches ELSE None

\* _handle_displayed_contact_call_request: one of the group, by name, or "her" when
\* there is only one.
CallTarget(v) ==
  Require(Group(v) # None, Limit)
  \o Given({"target"})
  \o Require(v.target # "other" /\ (v.target = "her" => Group(v) = "one"), Limit)

\* _next_displayed_contact_call_workflow.
CallContact(v) == CallTarget(v) \o Tools \o Do(<<"call_phone_by_number">>)

\* The recipient is one of the group; a first name alone has to be completed.
ShareRecipient(v) ==
  Given({"addressee"}) \o Require(v.addressee # "other", Limit)
  \o When(v.addressee = "first", Ask("recipient"))

\* _next_contact_share_email_workflow: the other records go to one of the group.
ShareGroup(v) ==
  Tools
  \o Require(Group(v) # None, Limit) \o ShareRecipient(v)
  \o Require(Group(v) = "several", Limit)
  \o Do(<<"send_email">>)

\* _validated_contact_share_recipient: the record of one person.
KnownRecipient(v) == v.matches = "one" /\ v.info = "good"

\* The end of _next_contact_lookup_workflow for the recipient of an email to come.
LookUpRecipient(v) ==
  Tools \o People("matches", v) \o Records("info", v)
  \o Require(KnownRecipient(v), Limit) \o Reply(Shown)

\* _begin_contact_record_share_email: the record of one other person.
SourceFound(v) ==
  Tools \o People("source", v) \o Records("sourceInfo", v)
  \o Require(v.source = "one", Limit)

\* _handle_contact_record_share_request with
\* _next_contact_record_share_email_workflow: the recipient must still be known when
\* the record of the other person has been read.
ShareRecord(v) ==
  Require(KnownRecipient(v), Limit) \o SourceFound(v)
  \o Require(KnownRecipient(v), Limit) \o Do(<<"send_email">>)

-----------------------------------------------------------------------------
(* The meetings of the day: _next_current_day_meeting_workflow.  Its goal  *)
(* notes the phase that was reached; what an earlier phase has read is     *)
(* validated again rather than taken for granted.                          *)

\* _current_day_meetings_from_evidence.
Meetings(v) == Verify("calendar", v)

\* Several meetings are shown when the request names none.  A reply that fits none of
\* them is answered with the question in other words, and whatever the user says then is
\* compared with the first wording and refused.
MeetingChoice(v) ==
  When(v.topic = "open" /\ v.calendar = "several",
       Ask("meeting") \o Require(v.meeting # "other", Limit))

\* The one meeting the request is about.
SelectedMeeting(v) ==
  Given({"topic"}) \o Meetings(v) \o MeetingChoice(v) \o Require(v.topic # "other", Limit)

\* _validated_selected_current_day_meeting.
KnownMeeting(v) == v.calendar \in {"one", "several"}

MeetingStatus(v) == Tools \o SelectedMeeting(v) \o Reply(Info)

\* The email to a named contact is only for a meeting that has begun.
Begun(v) == Given({"started"}) \o Require(v.started = "yes", Info)

\* One contact has the name that the request gives.
NamedContact(v) == People("attendee", v) \o Require(v.attendee = "one", Limit)

\* _store_current_day_meeting_recipients: a record with an address of its own for each.
Recipients(v) == Verify("attendees", v)

\* _validated_current_day_meeting_recipients.
KnownRecipients(v) == KnownMeeting(v) /\ v.attendees = "good"

\* The last phase.
SendToRecipients(v) == Require(KnownRecipients(v), Limit) \o Do(<<"send_email">>)

LateEmail(v) ==
  Tools \o SelectedMeeting(v) \o Begun(v)
  \o NamedContact(v) \o Recipients(v) \o SendToRecipients(v)

\* The same for the meeting the user has asked about before.
LateEmailFollowUp(v) ==
  Require(KnownMeeting(v), Limit) \o Tools
  \o NamedContact(v) \o Recipients(v) \o SendToRecipients(v)

\* What the email shall say must fit the meeting, or is asked for in other words and
\* then refused.
Content(v) == Ask("content") \o Require(v.content = "friendly", Limit)

AttendeeEmail(v) ==
  Tools \o SelectedMeeting(v) \o Recipients(v) \o Content(v) \o SendToRecipients(v)

\* _contextual_meeting_weather_email_matches: the words of the request fit the meeting
\* in topic, place and time.
RequestFits(v) == Given({"fitting"}) \o Require(v.fitting = "yes", Limit)

Venue(v) == Verify("venue", v)

\* _meeting_weather_snapshot_from_evidence: the slot of the hour it begins in.
MeetingWeather(v) == Verify("meetingWeather", v)

\* The calendar that was read in the present state is taken over.
WeatherEmail(v) ==
  Tools \o SelectedMeeting(v) \o RequestFits(v)
  \o Venue(v) \o Recipients(v) \o MeetingWeather(v) \o SendToRecipients(v)

\* What a request uses of the ones before, as long as the state is the same.
MessagesKept ==
  [pickContact |-> {"query", "matches"},
   callContact |-> {"matches", "info", "picked", "pickedInfo"},
   shareGroup |-> {"matches", "info", "picked", "pickedInfo"},
   shareRecord |-> {"matches", "info"},
   lateEmailFollowUp |-> {"topic", "calendar", "meeting"},
   weatherEmail |-> {"topic", "calendar", "meeting"}]

MessageRequests ==
  {"lookUp", "pickContact", "callContact", "shareGroup", "lookUpRecipient", "shareRecord",
   "meetingStatus", "lateEmail", "lateEmailFollowUp", "attendeeEmail", "weatherEmail"}

MessageSteps(r, v) ==
  CASE r = "lookUp" -> LookUp(v)
    [] r = "pickContact" -> PickContact(v)
    [] r = "callContact" -> CallContact(v)
    [] r = "shareGroup" -> ShareGroup(v)
    [] r = "lookUpRecipient" -> LookUpRecipient(v)
    [] r = "shareRecord" -> ShareRecord(v)
    [] r = "meetingStatus" -> MeetingStatus(v)
    [] r = "lateEmail" -> LateEmail(v)
    [] r = "lateEmailFollowUp" -> LateEmailFollowUp(v)
    [] r = "attendeeEmail" -> AttendeeEmail(v)
    [] r = "weatherEmail" -> WeatherEmail(v)
=============================================================================
