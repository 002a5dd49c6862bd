SPECIFICATION Spec
CONSTANTS
    tornado = tornado
    wind = wind
    report = report
    oklahoma = oklahoma
    Alerts = {tornado, wind, report}
    Reports = {report}
    Urgent = {tornado}
    Matched = {tornado}
    Areas = {oklahoma}
    AreaOf <- OneArea
    StartSettings <- OpenOnly
    Timer = timer
    Manual = {manual}
    Promoters = {q1}
    MaxIncidents = 3
    MaxRequests = 1
    MaxFaults = 1
INVARIANTS
    TypeOK
    OneIncidentPerSignal
PROPERTIES
    LiveStaysOpen
    
CHECK_DEADLOCK FALSE
