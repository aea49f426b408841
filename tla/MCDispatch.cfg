SPECIFICATION Spec
CONSTANTS
    Threads = {"t1"}
    Topics = {"topic"}
    Media = {"video"}
    MaxRegistrations = 2
    MaxFailures = 2
    MaxSession = 2
INVARIANTS
    RegisteredIsSubscribed
    FailuresAreReportedOnce
PROPERTIES
    CallbacksAreCurrent
    MethodsReturn
