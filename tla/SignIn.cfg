SPECIFICATION Spec
CONSTANTS
    Tabs = {t1, t2}
    MaxAttempts = 3
PROPERTIES CallbackIsExchanged
CHECK_DEADLOCK FALSE
